---- MODULE Spec2Model ----
(***************************************************************************)
(* MRUDA analytics pipeline: the Normalizer (transform_insights), the      *)
(* Metric Store it upserts into, the KPI / Trend / Fatigue engines, the    *)
(* Confidence Scorer and the orchestrator run_analysis.                    *)
(*                                                                         *)
(* Tables are bags of rows: the surrogate primary key `id` is dropped, and *)
(* a bag (unlike a set) can hold two rows that agree on every column, so   *)
(* the uniqueness of the composite key is a property of the code and not   *)
(* of the representation.  Dates are day numbers; the ISO strings of the   *)
(* code compare in the same order.  Metric values are floats in the code   *)
(* and non-negative integers here; ratios are kept as scaled integers.     *)
(***************************************************************************)
EXTENDS Integers, Sequences, FiniteSets, Bags, TLC

VARIABLES
    metrics,      \* the normalized_metrics table (committed rows)
    lastPayload,  \* SpecNorm: raw_data of the latest transform_insights call
    lastLevel,    \* SpecNorm: its level
    lastCreated,  \* SpecNorm: len(created) it returned
    calls,        \* SpecNorm: 0 before the first call, 1 after it
    repeated,     \* SpecNorm: the latest call repeated the one before it
    sess,         \* SpecRace: the two sessions normalizing concurrently
    window,       \* engine specifications: <<date_start, date_stop>>
    trend_signals,\* engine specifications: the signals handed to compute_fatigue
    result,       \* engine specifications: what the engine returned
    raw,          \* SpecPipe: the raw_meta_data table, in id order
    snapshots,    \* SpecPipe: the analysis_results table, in id order
    runs          \* SpecPipe: the run_analysis coroutine of each trigger

normVars == <<lastPayload, lastLevel, lastCreated, calls, repeated>>
raceVars == <<sess>>
engineVars == <<window, trend_signals, result>>
pipeVars == <<raw, snapshots, runs>>
vars == <<metrics, normVars, raceVars, engineVars, pipeVars>>

(***************************************************************************)
(* Bounds and input domains                                                *)
(***************************************************************************)
MaxRows == 2                       \* raw rows per payload
MaxVal == 2                        \* largest drawn metric total
MaxSignals == 2                    \* trend signals handed to compute_fatigue

Levels == {"campaign", "ad"}

(***************************************************************************)
(* Generic helpers                                                         *)
(***************************************************************************)
RECURSIVE SumSet(_, _)
\* Sum of f[x] over the finite set S.
SumSet(S, f) ==
    IF S = {} THEN 0
    ELSE LET x == CHOOSE y \in S : TRUE IN f[x] + SumSet(S \ {x}, f)

Get(row, field, default) ==
    IF field \in DOMAIN row THEN row[field] ELSE default

(***************************************************************************)
(* transformer.py                                                          *)
(***************************************************************************)
DIRECT_METRICS ==
    <<"impressions", "reach", "clicks", "unique_clicks", "spend",
      "frequency", "ctr", "cpc", "cpm", "cpp">>

\* The numeric strings of the raw payloads; any other string is not a number.
Numerals == ("0" :> 0) @@ ("1" :> 1) @@ ("2" :> 2) @@ ("3" :> 3) @@ ("4" :> 4)

_safe_float(value) ==
    IF value \in DOMAIN Numerals THEN Numerals[value] ELSE 0

_extract_entity_info(row, level) ==
    IF level = "ad"
      THEN <<"ad", Get(row, "ad_id", ""), Get(row, "ad_name", "")>>
    ELSE IF level = "adset"
      THEN <<"adset", Get(row, "adset_id", ""), Get(row, "adset_name", "")>>
    ELSE IF level = "campaign"
      THEN <<"campaign", Get(row, "campaign_id", ""), Get(row, "campaign_name", "")>>
    ELSE <<"account", Get(row, "account_id", ""), "Account">>

\* One step of the loop over row["actions"]: m is the dict built so far.
ActionStep(m, action) ==
    LET t == Get(action, "action_type", "")
        v == _safe_float(Get(action, "value", "0"))
        set(name, val) == [n \in DOMAIN m \cup {name} |->
                              IF n = name THEN val ELSE m[n]]
    IN  IF t = "link_click" THEN set("link_clicks", v)
        ELSE IF t = "post_engagement" THEN set("post_engagement", v)
        ELSE IF t = "page_engagement" THEN set("page_engagement", v)
        ELSE IF t = "like" THEN set("likes", v)
        ELSE IF t = "comment" THEN set("comments", v)
        ELSE IF t = "post" THEN set("shares", v)
        ELSE IF t \in {"purchase", "offsite_conversion.fb_pixel_purchase"}
          THEN set("conversions", Get(m, "conversions", 0) + v)
        ELSE IF t = "video_view" THEN set("video_views", v)
        ELSE m

\* One step of the loop over row["action_values"].
ActionValueStep(m, av) ==
    IF Get(av, "action_type", "") \in {"purchase", "offsite_conversion.fb_pixel_purchase"}
      THEN [n \in DOMAIN m \cup {"purchase_value"} |->
              IF n = "purchase_value" THEN _safe_float(Get(av, "value", "0"))
              ELSE m[n]]
      ELSE m

\* One step of the loops over row["video_p<pct>_watched_actions"].
VideoStep(m, name, v) ==
    IF Get(v, "action_type", "") = "video_view"
      THEN [n \in DOMAIN m \cup {name} |->
              IF n = name THEN _safe_float(Get(v, "value", "0")) ELSE m[n]]
      ELSE m

RECURSIVE FoldSeq(_, _, _, _)
\* op(...op(op(acc, s[i]), s[i+1])..., s[Len(s)]) with op selected by kind.
FoldSeq(kind, acc, s, i) ==
    IF i > Len(s) THEN acc
    ELSE FoldSeq(kind,
                 CASE kind = "actions" -> ActionStep(acc, s[i])
                   [] kind = "action_values" -> ActionValueStep(acc, s[i])
                   [] OTHER -> VideoStep(acc, kind, s[i]),
                 s, i + 1)

_extract_action_metrics(row) ==
    LET m0 == FoldSeq("actions", <<>>, Get(row, "actions", <<>>), 1)
        m1 == FoldSeq("action_values", m0, Get(row, "action_values", <<>>), 1)
        m2 == FoldSeq("video_p25_watched", m1, Get(row, "video_p25_watched_actions", <<>>), 1)
        m3 == FoldSeq("video_p50_watched", m2, Get(row, "video_p50_watched_actions", <<>>), 1)
        m4 == FoldSeq("video_p75_watched", m3, Get(row, "video_p75_watched_actions", <<>>), 1)
    IN  FoldSeq("video_p100_watched", m4, Get(row, "video_p100_watched_actions", <<>>), 1)

\* all_metrics of one row: the direct fields present, updated with the
\* action metrics.
AllMetrics(row) ==
    LET direct == {DIRECT_METRICS[i] : i \in 1..Len(DIRECT_METRICS)} \cap DOMAIN row
        acts   == _extract_action_metrics(row)
    IN  [n \in direct \cup DOMAIN acts |->
            IF n \in DOMAIN acts THEN acts[n] ELSE _safe_float(row[n])]

(***************************************************************************)
(* metric_registry.py                                                      *)
(***************************************************************************)
get_metric(name) ==
    CASE name \in {"impressions", "reach", "clicks", "unique_clicks", "frequency"}
           -> "volume"
      [] name = "spend" -> "cost"
      [] name = "purchase_value" -> "revenue"
      [] name \in {"ctr", "cpc", "cpm", "cpp"} -> "rate"
      [] name \in {"post_engagement", "page_engagement", "likes", "comments", "shares"}
           -> "engagement"
      [] name \in {"video_views", "video_p25_watched", "video_p50_watched",
                   "video_p75_watched", "video_p100_watched"} -> "video"
      [] name \in {"roas", "cpa", "engagement_rate", "video_completion_rate"}
           -> "derived"
      [] OTHER -> "unknown"

(***************************************************************************)
(* The upsert of transform_insights                                        *)
(***************************************************************************)
NormalizedMetric(etype, eid, ename, date, mname, mvalue, mtype) ==
    [source |-> "meta", entity_type |-> etype, entity_id |-> eid,
     entity_name |-> ename, date |-> date, metric_name |-> mname,
     metric_value |-> mvalue, metric_type |-> mtype]

\* The columns of the unique constraint uq_normalized_metric.
KeyOf(r) == <<r.source, r.entity_type, r.entity_id, r.date, r.metric_name>>

\* A lookup that also compares the entity name: a renamed entity is not found.
ExistingByName(table, nm) ==
    {r \in BagToSet(table) : KeyOf(r) = KeyOf(nm) /\ r.entity_name = nm.entity_name}

\* The rows the select of the idempotency check returns for nm's key.
Existing(table, nm) ==
    {r \in BagToSet(table) : KeyOf(r) = KeyOf(nm)}

\* An update that adds the new value to the stored one instead of replacing it.
UpsertAccumulate(table, nm) ==
    LET found == Existing(table, nm)
    IN  IF found # {}
          THEN LET existing == CHOOSE r \in found : TRUE
               IN  [table |-> (table (-) SetToBag({existing}))
                              (+) SetToBag({[existing EXCEPT
                                    !.metric_value = @ + nm.metric_value,
                                    !.entity_name = nm.entity_name,
                                    !.metric_type = nm.metric_type]}),
                    created |-> 0]
          ELSE [table |-> table (+) SetToBag({nm}), created |-> 1]

\* The body of the loop over all_metrics: update the first row found, or add.
Upsert(table, nm) ==
    LET found == Existing(table, nm)
    IN  IF found # {}
          THEN LET existing == CHOOSE r \in found : TRUE
               IN  [table |-> (table (-) SetToBag({existing}))
                              (+) SetToBag({[existing EXCEPT
                                    !.metric_value = nm.metric_value,
                                    !.entity_name = nm.entity_name,
                                    !.metric_type = nm.metric_type]}),
                    created |-> 0]
          ELSE [table |-> table (+) SetToBag({nm}), created |-> 1]

RECURSIVE UpsertRow(_, _, _, _, _)
\* The upserts of one raw row; names is the set of metric names still to do
\* (their keys differ, so their order does not matter).
UpsertRow(st, info, date, all, names) ==
    IF names = {} THEN st
    ELSE LET n  == CHOOSE x \in names : TRUE
             u  == Upsert(st.table,
                          NormalizedMetric(info[1], info[2], info[3], date, n,
                                           all[n], get_metric(n)))
         IN  UpsertRow([table |-> u.table, created |-> st.created + u.created],
                       info, date, all, names \ {n})

\* An element of a payload that is not a JSON object (here: null).  It has
\* no get(), so the first statement of the loop body raises AttributeError.
NullRow == [json |-> "null"]

IsObject(row) == "json" \notin DOMAIN row

\* The loop over raw_data from row i on.  A row that raises ends the loop
\* and the function: nothing catches the error inside transform_insights.
RECURSIVE TransformRows(_, _, _, _)
TransformRows(st, raw_data, level, i) ==
    IF i > Len(raw_data)
      THEN [table |-> st.table, created |-> st.created, raised |-> FALSE]
    ELSE IF ~IsObject(raw_data[i])
      THEN [table |-> st.table, created |-> st.created, raised |-> TRUE]
    ELSE LET row == raw_data[i]
             all == AllMetrics(row)
         IN  TransformRows(UpsertRow(st, _extract_entity_info(row, level),
                                     Get(row, "date_start", ""), all, DOMAIN all),
                           raw_data, level, i + 1)

\* transform_insights on one session: every select autoflushes the rows added
\* so far, and the commit at the end stores them.  Returns the table,
\* len(created) and whether an error left the function before its commit;
\* the records added until then stay in the session, whose next commit
\* stores them.
transform_insights(table, raw_data, level) ==
    TransformRows([table |-> table, created |-> 0], raw_data, level, 1)

(***************************************************************************)
(* SpecNorm: transform_insights called again and again on one session      *)
(***************************************************************************)
\* A raw insight row of campaign c on day d.  Variant 2 is the same row
\* fetched later: the campaign was renamed, impressions is not a number and
\* there are no purchase actions.
RawRow(c, d, variant) ==
    [account_id |-> "act1", campaign_id |-> c,
     campaign_name |-> IF variant = 1 THEN "Summer" ELSE "Summer v2",
     ad_id |-> "a1", ad_name |-> "Ad one",
     date_start |-> d, date_stop |-> d,
     impressions |-> IF variant = 1 THEN "3" ELSE "n/a",
     actions |-> IF variant = 1
                   THEN <<[action_type |-> "purchase", value |-> "1"],
                          [action_type |-> "offsite_conversion.fb_pixel_purchase",
                           value |-> "2"]>>
                   ELSE <<>>]

RowShapes == {<<"c1", 1, 1>>, <<"c1", 1, 2>>, <<"c2", 2, 1>>}

RawRows == {RawRow(x[1], x[2], x[3]) : x \in RowShapes}

Payloads == UNION {[1..n -> RawRows] : n \in 0..MaxRows}

\* The variables of SpecNorm while another specification runs.
IdleNorm ==
    /\ lastPayload = <<>>
    /\ lastLevel = "campaign"
    /\ lastCreated = 0
    /\ calls = 0
    /\ repeated = FALSE

\* The variables of SpecRace while another specification runs.
IdleRace == sess = <<>>

\* The variables of the engine specifications while another one runs.
IdleEngines ==
    /\ window = <<1, 1>>
    /\ trend_signals = <<>>
    /\ result = [kind |-> "none"]

\* The triggers of run_analysis: the daily job and the /run-analysis route.
RunIds == {"scheduler", "api"}

\* A trigger that has not called run_analysis.
IdleRun ==
    [pc |-> "idle", window |-> <<1, 1>>, force |-> FALSE, data |-> 1,
     pending |-> <<>>, campaign_objective |-> "", currency |-> "", failed |-> {},
     started_at |-> 0, result_id |-> 0]

\* The variables of SpecPipe while another specification runs.
IdlePipe ==
    /\ raw = <<>>
    /\ snapshots = <<>>
    /\ runs = [r \in RunIds |-> IdleRun]

InitNorm ==
    /\ metrics = EmptyBag
    /\ IdleNorm
    /\ IdleRace
    /\ IdlePipe
    /\ IdleEngines

\* A call of transform_insights(raw_data, level, session).
Transform(raw_data, level) ==
    LET r == transform_insights(metrics, raw_data, level)
    IN  /\ metrics' = r.table
        /\ lastPayload' = raw_data
        /\ lastLevel' = level
        /\ lastCreated' = r.created
        /\ calls' = 1
        /\ repeated' = (calls = 1 /\ raw_data = lastPayload /\ level = lastLevel)
        /\ UNCHANGED <<raceVars, engineVars, pipeVars>>

NextNorm == \E p \in Payloads, l \in Levels : Transform(p, l)

SpecNorm == InitNorm /\ [][NextNorm]_vars

\* The normalized records one raw row yields at a level.
RecordsOf(row, level) ==
    LET info == _extract_entity_info(row, level)
        all  == AllMetrics(row)
    IN  {NormalizedMetric(info[1], info[2], info[3], Get(row, "date_start", ""),
                          n, all[n], get_metric(n)) : n \in DOMAIN all}

Candidates == UNION {RecordsOf(row, l) : row \in RawRows, l \in Levels}

UniqueKeys(table) ==
    \A r \in BagToSet(table) :
        /\ CopiesIn(r, table) = 1
        /\ \A q \in BagToSet(table) : KeyOf(q) = KeyOf(r) => q = r

\* C1: after any sequence of transform_insights calls no two NormalizedMetric
\* records share (source, entity_type, entity_id, date, metric_name), and
\* normalizing a record whose key exists replaces metric_value, entity_name
\* and metric_type of the stored record and adds no record.
C1_UniqueKeyUpsert ==
    /\ UniqueKeys(metrics)
    /\ \A nm \in Candidates :
          Existing(metrics, nm) # {} =>
             LET u == Upsert(metrics, nm)
             IN  /\ u.created = 0
                 /\ BagCardinality(u.table) = BagCardinality(metrics)
                 /\ Existing(u.table, nm) = {nm}
                 /\ \A r \in BagToSet(metrics) :
                       KeyOf(r) # KeyOf(nm) => CopiesIn(r, u.table) = 1

\* C1 witness: the impressions record of c1 on day 1 carries the new name and
\* value of the re-fetched row, beside the conversions record the first fetch
\* created: an existing key was normalized again.
C1_Witness ==
    /\ calls = 1
    /\ \E r, q \in BagToSet(metrics) :
          /\ r.entity_type = "campaign" /\ r.entity_id = "c1" /\ r.date = 1
          /\ r.metric_name = "impressions" /\ r.entity_name = "Summer v2"
          /\ r.metric_value = 0
          /\ q.entity_type = "campaign" /\ q.entity_id = "c1" /\ q.date = 1
          /\ q.metric_name = "conversions" /\ q.metric_value = 3

\* C2: running transform_insights twice in a row on the same raw rows and
\* level leaves the store as the first run left it, and the second run
\* creates no record.
C2_Idempotent ==
    [][(calls = 1 /\ lastPayload' = lastPayload /\ lastLevel' = lastLevel)
         => (metrics' = metrics /\ lastCreated' = 0)]_vars

\* C2 witness: a non-empty payload was normalized twice in a row.
C2_Witness ==
    repeated /\ Len(lastPayload) > 0 /\ metrics # EmptyBag

(***************************************************************************)
(* SpecRace: two pipeline runs normalize at the same time, each on its own *)
(* session (get_session yields one per request or job).  A session's       *)
(* writes stay in its transaction until its commit; a select autoflushes   *)
(* the session's pending inserts and reads the committed rows and its own. *)
(* The unique constraint uq_normalized_metric rejects the insert of a key  *)
(* that is committed, and makes the insert of a key another open           *)
(* transaction has inserted wait for that transaction.                     *)
(***************************************************************************)
Sessions == {"A", "B"}

Other(s) == CHOOSE t \in Sessions : t # s

\* The names of all_metrics in the order the loop visits them.
MetricOrder ==
    DIRECT_METRICS \o
    <<"link_clicks", "post_engagement", "page_engagement", "likes", "comments",
      "shares", "conversions", "video_views", "purchase_value",
      "video_p25_watched", "video_p50_watched", "video_p75_watched",
      "video_p100_watched">>

RECURSIVE RowRecords(_, _, _, _)
RowRecords(info, date, all, i) ==
    IF i > Len(MetricOrder) THEN <<>>
    ELSE LET n == MetricOrder[i]
         IN  (IF n \in DOMAIN all
                THEN <<NormalizedMetric(info[1], info[2], info[3], date, n,
                                        all[n], get_metric(n))>>
                ELSE <<>>)
             \o RowRecords(info, date, all, i + 1)

RECURSIVE PayloadRecords(_, _, _)
\* The records transform_insights looks up and upserts, in order.
PayloadRecords(raw_data, level, i) ==
    IF i > Len(raw_data) THEN <<>>
    ELSE RowRecords(_extract_entity_info(raw_data[i], level),
                    Get(raw_data[i], "date_start", ""),
                    AllMetrics(raw_data[i]), 1)
         \o PayloadRecords(raw_data, level, i + 1)

Keys(rows) == {KeyOf(r) : r \in rows}

\* The keys session s has inserted in its open transaction (flushed).
FlushedInserts(s) == sess[s].insKeys \ sess[s].unflushed

\* The outcome of flushing the pending inserts of session s.
FlushOutcome(s) ==
    IF sess[s].unflushed \cap Keys(BagToSet(metrics)) # {} THEN "integrity_error"
    ELSE IF sess[s].unflushed \cap FlushedInserts(Other(s)) # {} THEN "wait"
    ELSE "ok"

\* What a select of session s reads: committed rows, overridden by its own.
View(s) ==
    {r \in BagToSet(metrics) : KeyOf(r) \notin Keys(sess[s].writes)}
        \cup sess[s].writes

\* The session after an exception left transform_insights: the transaction
\* is rolled back and the error is logged by run_analysis.
Failed(s) ==
    [sess[s] EXCEPT !.pc = "done", !.err = TRUE, !.writes = {},
                    !.insKeys = {}, !.unflushed = {}]

\* One pass of the loop body of transform_insights on session s: the select
\* of the idempotency check (with its autoflush) and the add that follows.
RaceSelect(s) ==
    /\ sess[s].pc = "select"
    /\ FlushOutcome(s) # "wait"
    /\ IF FlushOutcome(s) = "integrity_error"
         THEN sess' = [sess EXCEPT ![s] = Failed(s)]
         ELSE LET nm    == sess[s].todo[sess[s].idx]
                  found == {r \in View(s) : KeyOf(r) = KeyOf(nm)}
                  last  == sess[s].idx = Len(sess[s].todo)
              IN  sess' = [sess EXCEPT ![s] =
                     [@ EXCEPT
                        !.writes = {r \in @ : KeyOf(r) # KeyOf(nm)} \cup
                                   {IF found # {}
                                      THEN [(CHOOSE r \in found : TRUE) EXCEPT
                                              !.metric_value = nm.metric_value,
                                              !.entity_name = nm.entity_name,
                                              !.metric_type = nm.metric_type]
                                      ELSE nm},
                        !.insKeys = IF found # {} THEN @ ELSE @ \cup {KeyOf(nm)},
                        !.unflushed = IF found # {} THEN {} ELSE {KeyOf(nm)},
                        !.created = IF found # {} THEN @ ELSE @ + 1,
                        !.idx = @ + 1,
                        !.pc = IF last THEN "commit" ELSE "select"]]
    /\ UNCHANGED <<metrics, normVars, engineVars, pipeVars>>

\* session.commit() at the end of transform_insights.
RaceCommit(s) ==
    /\ sess[s].pc = "commit"
    /\ FlushOutcome(s) # "wait"
    /\ IF FlushOutcome(s) = "integrity_error"
         THEN /\ sess' = [sess EXCEPT ![s] = Failed(s)]
              /\ UNCHANGED metrics
         ELSE /\ metrics' = SetToBag(View(s))
              /\ sess' = [sess EXCEPT ![s] =
                     [@ EXCEPT !.pc = "done", !.writes = {}, !.insKeys = {},
                               !.unflushed = {}]]
    /\ UNCHANGED <<normVars, engineVars, pipeVars>>

\* Both sessions wait for a key the other has inserted: the database aborts
\* one of them.
RaceDeadlock(s) ==
    /\ sess[s].pc \in {"select", "commit"}
    /\ sess[Other(s)].pc \in {"select", "commit"}
    /\ FlushOutcome(s) = "wait"
    /\ FlushOutcome(Other(s)) = "wait"
    /\ sess' = [sess EXCEPT ![s] = Failed(s)]
    /\ UNCHANGED <<metrics, normVars, engineVars, pipeVars>>

NewSession(raw_data, level) ==
    [pc |-> "select",
     todo |-> PayloadRecords(raw_data, level, 1), idx |-> 1,
     writes |-> {}, insKeys |-> {}, unflushed |-> {}, err |-> FALSE,
     created |-> 0]

RacePayloads == {p \in Payloads : Len(p) > 0}

\* The campaign payloads of two overlapping runs; the store is empty or holds
\* an earlier normalization.
InitRace ==
    /\ \E p0 \in {<<>>} \cup {<<r>> : r \in RawRows} :
          metrics = transform_insights(EmptyBag, p0, "campaign").table
    /\ \E pa \in RacePayloads, pb \in RacePayloads :
          sess = [s \in Sessions |->
                    NewSession(IF s = "A" THEN pa ELSE pb, "campaign")]
    /\ IdleNorm
    /\ IdleEngines
    /\ IdlePipe

NextRace ==
    \E s \in Sessions : RaceSelect(s) \/ RaceCommit(s) \/ RaceDeadlock(s)

SpecRace == InitRace /\ [][NextRace]_vars

\* C3: when two runs normalize rows with the same key concurrently, both
\* normalizations complete without error and the store ends with exactly
\* one record for each key they normalized.
C3_ConcurrentUpsertSafe ==
    (\A s \in Sessions : sess[s].pc = "done") =>
        /\ \A s \in Sessions : ~sess[s].err
        /\ \A s \in Sessions : \A i \in 1..Len(sess[s].todo) :
              Cardinality(Existing(metrics, sess[s].todo[i])) = 1
        /\ UniqueKeys(metrics)

(***************************************************************************)
(* kpi_engine.py                                                           *)
(***************************************************************************)
\* round(x, 4): a KPI value v is kept as the integer v * KpiScale.
KpiScale == 10000

\* n / d rounded to the nearest integer, halves to the even one (round()).
RoundDiv(n, d) ==
    LET q == n \div d
        r == n % d
    IN  IF 2 * r < d THEN q
        ELSE IF 2 * r > d THEN q + 1
        ELSE IF q % 2 = 0 THEN q ELSE q + 1

\* The rows an engine query selects: source, entity type and date range.
RowsIn(table, entity_type, w) ==
    {r \in BagToSet(table) :
        /\ r.source = "meta"
        /\ r.entity_type = entity_type
        /\ r.date >= w[1]
        /\ r.date <= w[2]}

\* The sum of metric_value over the rows of S, each as often as stored.
SumValues(table, S) ==
    SumSet(S, [r \in S |-> r.metric_value * CopiesIn(r, table)])

_get_metrics_for_entity(table, entity_type, entity_id, w) ==
    LET rows  == {r \in RowsIn(table, entity_type, w) : r.entity_id = entity_id}
        names == {r.metric_name : r \in rows}
    IN  [n \in names |-> SumValues(table, {r \in rows : r.metric_name = n})]

KPIMetric(name, value, unit, entity_type, entity_id, entity_name) ==
    [name |-> name, value |-> value, unit |-> unit,
     entity_type |-> entity_type, entity_id |-> entity_id,
     entity_name |-> entity_name]

\* A ratio whose denominator is clamped to 1 instead of being guarded.
RatioClamped(num, den, factor) ==
    RoundDiv(num * factor * KpiScale, IF den > 0 THEN den ELSE 1)

\* round((num / den * factor) if den > 0 else 0.0, 4)
Ratio(num, den, factor) ==
    IF den > 0 THEN RoundDiv(num * factor * KpiScale, den) ELSE 0

\* The seven KPIs of one (entity_id, entity_name) pair, in the code's order.
EntityKpis(table, w, entity_type, e) ==
    LET m               == _get_metrics_for_entity(table, entity_type, e[1], w)
        impressions     == Get(m, "impressions", 0)
        clicks          == Get(m, "clicks", 0)
        spend           == Get(m, "spend", 0)
        conversions     == Get(m, "conversions", 0)
        purchase_value  == Get(m, "purchase_value", 0)
        post_engagement == Get(m, "post_engagement", 0)
        video_views     == Get(m, "video_views", 0)
        video_complete  == Get(m, "video_p100_watched", 0)
        K(name, value, unit) == KPIMetric(name, value, unit, entity_type, e[1], e[2])
    IN  << K("ctr", Ratio(clicks, impressions, 100), "%"),
           K("cpc", Ratio(spend, clicks, 1), "currency"),
           K("cpm", Ratio(spend, impressions, 1000), "currency"),
           K("cpa", Ratio(spend, conversions, 1), "currency"),
           K("roas", Ratio(purchase_value, spend, 1), "ratio"),
           K("engagement_rate", Ratio(post_engagement, impressions, 100), "%"),
           K("video_completion_rate", Ratio(video_complete, video_views, 100), "%") >>

\* select(entity_id, entity_name).distinct() over the window.
DistinctEntities(table, entity_type, w) ==
    {<<r.entity_id, r.entity_name>> : r \in RowsIn(table, entity_type, w)}

\* The orders in which a query without ORDER BY can return the set S.
Orderings(S) ==
    {o \in [1..Cardinality(S) -> S] : \A x \in S : \E i \in DOMAIN o : o[i] = x}

RECURSIVE KpisFrom(_, _, _, _, _)
KpisFrom(table, w, entity_type, entities, i) ==
    IF i > Len(entities) THEN <<>>
    ELSE EntityKpis(table, w, entity_type, entities[i])
           \o KpisFrom(table, w, entity_type, entities, i + 1)

\* compute_kpis; entities is the result of the distinct query, in its order.
compute_kpis(table, w, entity_type, entities) ==
    KpisFrom(table, w, entity_type, entities, 1)

(***************************************************************************)
(* SpecKpi: compute_kpis over stores whose window totals can be zero       *)
(***************************************************************************)
\* A stored record as the Normalizer writes it.
Rec(entity_type, entity_id, entity_name, date, metric_name, metric_value) ==
    NormalizedMetric(entity_type, entity_id, entity_name, date, metric_name,
                     metric_value, get_metric(metric_name))

\* The metrics compute_kpis divides by.
KpiDenominators == {"impressions", "clicks", "spend", "conversions", "video_views"}

\* Campaign c1 on day 1 with the drawn totals f (zero totals are stored as 0
\* or, when sparse, not at all) and the three pure numerators; the renamed
\* campaign on day 2; one ad.
KpiStore(f, sparse) ==
    SetToBag(
        {Rec("campaign", "c1", "Summer", 1, n, f[n]) :
            n \in {x \in KpiDenominators : ~sparse \/ f[x] > 0}}
        \cup {Rec("campaign", "c1", "Summer", 1, n, 1) :
            n \in {"purchase_value", "post_engagement", "video_p100_watched"}}
        \cup {Rec("campaign", "c1", "Summer v2", 2, "impressions", 1),
              Rec("campaign", "c1", "Summer v2", 2, "spend", 2),
              Rec("ad", "a1", "Ad one", 1, "impressions", 1)})

Windows == {<<1, 1>>, <<1, 2>>, <<2, 2>>}

InitKpi ==
    /\ \E f \in [KpiDenominators -> 0..MaxVal], sparse \in BOOLEAN :
          metrics = KpiStore(f, sparse)
    /\ window \in Windows
    /\ trend_signals = <<>>
    /\ result = [kind |-> "none"]
    /\ IdleNorm
    /\ IdleRace
    /\ IdlePipe

ComputeKpis ==
    /\ \E entities \in Orderings(DistinctEntities(metrics, "campaign", window)) :
          result' = [kind |-> "kpis",
                     kpis |-> compute_kpis(metrics, window, "campaign", entities)]
    /\ UNCHANGED <<metrics, normVars, raceVars, window, trend_signals, pipeVars>>

NextKpi == ComputeKpis

SpecKpi == InitKpi /\ [][NextKpi]_vars

\* The total of one metric of a campaign over the window, from the store.
WindowTotal(entity_id, metric_name) ==
    LET S == {r \in BagToSet(metrics) :
                /\ r.entity_type = "campaign" /\ r.entity_id = entity_id
                /\ r.metric_name = metric_name
                /\ r.date >= window[1] /\ r.date <= window[2]}
    IN  SumSet(S, [r \in S |-> r.metric_value])

\* The metric a KPI divides by.
DenominatorOf(kpi_name) ==
    CASE kpi_name \in {"ctr", "cpm", "engagement_rate"} -> "impressions"
      [] kpi_name = "cpc" -> "clicks"
      [] kpi_name = "cpa" -> "conversions"
      [] kpi_name = "roas" -> "spend"
      [] kpi_name = "video_completion_rate" -> "video_views"

\* C7: compute_kpis never divides by zero: a KPI whose denominator totals
\* zero over the window is 0.0 (impressions for ctr, cpm and engagement_rate;
\* clicks for cpc; conversions for cpa; spend for roas; video_views for
\* video_completion_rate).
C7_ZeroDenominatorYieldsZero ==
    result.kind = "kpis" =>
        \A i \in DOMAIN result.kpis :
            LET k == result.kpis[i]
            IN  WindowTotal(k.entity_id, DenominatorOf(k.name)) = 0 => k.value = 0

\* A result where cpc is 0 because no click was counted although money was
\* spent, next to a ctr-independent KPI that is not 0.
C7_Witness ==
    /\ result.kind = "kpis"
    /\ \E i, j \in DOMAIN result.kpis :
          /\ result.kpis[i].name = "cpc"
          /\ result.kpis[i].value = 0
          /\ WindowTotal(result.kpis[i].entity_id, "clicks") = 0
          /\ WindowTotal(result.kpis[i].entity_id, "spend") > 0
          /\ result.kpis[j].name = "roas"
          /\ result.kpis[j].value > 0

(***************************************************************************)
(* trend_engine.py                                                         *)
(***************************************************************************)
\* round(x, 2): a change_pct c is kept as the integer c * PctScale.
PctScale == 100

\* RoundDiv for a numerator of either sign (round() is symmetric).
RoundDivSigned(n, d) == IF n >= 0 THEN RoundDiv(n, d) ELSE 0 - RoundDiv(0 - n, d)

_compute_date_ranges(w) ==
    LET period_days == (w[2] - w[1]) + 1
        prev_stop   == w[1] - 1
        prev_start  == prev_stop - (period_days - 1)
    IN  <<prev_start, prev_stop>>

\* (entity_id, entity_name, metric_name) -> sum, as a function on its keys.
_aggregate(table, entity_type, w) ==
    LET rows == RowsIn(table, entity_type, w)
        keys == {<<r.entity_id, r.entity_name, r.metric_name>> : r \in rows}
    IN  [k \in keys |->
            SumValues(table, {r \in rows : <<r.entity_id, r.entity_name,
                                             r.metric_name>> = k})]

\* change is the exact quotient n / d with d > 0.
_direction(change) ==
    IF change.n > 2 * change.d THEN "up"
    ELSE IF change.n < (0 - 2) * change.d THEN "down"
    ELSE "flat"

_signal(metric_name, direction) ==
    IF metric_name \in {"cpc", "cpm", "cpa", "spend"}
      THEN (IF direction = "up" THEN "alert"
            ELSE IF direction = "down" THEN "improving" ELSE "stable")
    ELSE IF metric_name \in {"ctr", "roas", "engagement_rate", "clicks",
                             "conversions", "purchase_value"}
      THEN (IF direction = "up" THEN "improving"
            ELSE IF direction = "down" THEN "declining" ELSE "stable")
    ELSE "stable"

TREND_METRICS ==
    {"impressions", "clicks", "spend", "ctr", "cpc", "cpm", "conversions",
     "purchase_value", "roas", "engagement_rate"}

TrendSignal(mname, etype, eid, ename, curr, prev, change_pct, d, sig, available) ==
    [metric_name |-> mname, entity_type |-> etype, entity_id |-> eid,
     entity_name |-> ename, current_value |-> curr, previous_value |-> prev,
     change_pct |-> change_pct, direction |-> d, signal |-> sig,
     previous_period_available |-> available]

\* The signal of a key computed as a percentage whatever the baseline is,
\* a missing baseline counting as a rise of 100%.
SignalOfInflated(entity_type, k, curr_val, prev_val) ==
    LET change == IF prev_val = 0 THEN [n |-> 100, d |-> 1]
                  ELSE [n |-> (curr_val - prev_val) * 100, d |-> prev_val]
        d      == _direction(change)
    IN  TrendSignal(k[3], entity_type, k[1], k[2], curr_val, prev_val,
                    RoundDivSigned(change.n * PctScale, change.d), d,
                    _signal(k[3], d), TRUE)

\* The body of the loop of compute_trends for the key k = (eid, ename, mname).
SignalOf(entity_type, k, curr_val, prev_val) ==
    IF prev_val = 0
      THEN TrendSignal(k[3], entity_type, k[1], k[2], curr_val, 0, 0, "flat",
                       "insufficient_data", FALSE)
      ELSE LET change == [n |-> (curr_val - prev_val) * 100, d |-> prev_val]
               d      == _direction(change)
           IN  TrendSignal(k[3], entity_type, k[1], k[2], curr_val, prev_val,
                           RoundDivSigned(change.n * PctScale, change.d), d,
                           _signal(k[3], d), TRUE)

\* The keys of the current window compute_trends emits a signal for.
TrendKeys(table, w, entity_type) ==
    {k \in DOMAIN _aggregate(table, entity_type, w) : k[3] \in TREND_METRICS}

\* compute_trends; keys is current.items() without the untracked metrics, in
\* the order the rows came back.
compute_trends(table, w, entity_type, keys) ==
    LET current  == _aggregate(table, entity_type, w)
        previous == _aggregate(table, entity_type, _compute_date_ranges(w))
    IN  [i \in 1..Len(keys) |->
            SignalOf(entity_type, keys[i], current[keys[i]],
                     Get(previous, keys[i], 0))]

(***************************************************************************)
(* SpecTrend: compute_trends over stores with empty, zero and non-zero     *)
(* baselines                                                               *)
(***************************************************************************)
\* Campaign c1 over the window w: clicks cur on its first day, spend 2 on
\* its last day and reach, which is not tracked.  Before the window: clicks
\* p1 on the day before it (no record when p1 = -1), under the old name when
\* renamed; clicks p2 two days before it; spend ps the day before it.
TrendStore(w, cur, p1, p2, ps, renamed) ==
    SetToBag(
        {Rec("campaign", "c1", "Summer", w[1], "clicks", cur),
         Rec("campaign", "c1", "Summer", w[2], "spend", 2),
         Rec("campaign", "c1", "Summer", w[1], "reach", 1),
         Rec("campaign", "c1", "Summer", w[1] - 2, "clicks", p2),
         Rec("campaign", "c1", "Summer", w[1] - 1, "spend", ps),
         Rec("ad", "a1", "Ad one", w[1], "clicks", 1)}
        \cup (IF p1 < 0 THEN {}
              ELSE {Rec("campaign", "c1", IF renamed THEN "Summer old" ELSE "Summer",
                        w[1] - 1, "clicks", p1)}))

TrendWindows == {<<3, 3>>, <<3, 4>>}

InitTrend ==
    /\ window \in TrendWindows
    /\ \E cur \in 0..MaxVal, p1 \in (0 - 1)..MaxVal, p2 \in 0..MaxVal,
          ps \in 0..MaxVal, renamed \in BOOLEAN :
          metrics = TrendStore(window, cur, p1, p2, ps, renamed)
    /\ trend_signals = <<>>
    /\ result = [kind |-> "none"]
    /\ IdleNorm
    /\ IdleRace
    /\ IdlePipe

ComputeTrends ==
    /\ \E keys \in Orderings(TrendKeys(metrics, window, "campaign")) :
          result' = [kind |-> "trends",
                     trends |-> compute_trends(metrics, window, "campaign", keys)]
    /\ UNCHANGED <<metrics, normVars, raceVars, window, trend_signals, pipeVars>>

NextTrend == ComputeTrends

SpecTrend == InitTrend /\ [][NextTrend]_vars

\* The stored campaign rows of one entity and metric dated from lo to hi.
EntityRows(entity_id, metric_name, lo, hi) ==
    {r \in BagToSet(metrics) :
        /\ r.entity_type = "campaign" /\ r.entity_id = entity_id
        /\ r.metric_name = metric_name
        /\ r.date >= lo /\ r.date <= hi}

\* The window of the same length that ends the day before the current one.
PreviousTotal(entity_id, metric_name) ==
    LET len == (window[2] - window[1]) + 1
        S   == EntityRows(entity_id, metric_name, window[1] - len, window[1] - 1)
    IN  SumSet(S, [r \in S |-> r.metric_value])

\* C6: for every entity and tracked metric present in the current window
\* whose previous-window sum is exactly 0 (no record at all included),
\* compute_trends emits a signal, and it has previous_period_available
\* false, change_pct 0, direction flat and signal insufficient_data,
\* whatever the current value is.
C6_ZeroBaselineInsufficientData ==
    result.kind = "trends" =>
        \A r \in BagToSet(metrics) :
            ( /\ r.entity_type = "campaign"
              /\ r.date >= window[1] /\ r.date <= window[2]
              /\ r.metric_name \in TREND_METRICS
              /\ PreviousTotal(r.entity_id, r.metric_name) = 0 )
            => /\ \E i \in DOMAIN result.trends :
                    /\ result.trends[i].entity_id = r.entity_id
                    /\ result.trends[i].metric_name = r.metric_name
               /\ \A i \in DOMAIN result.trends :
                    ( /\ result.trends[i].entity_id = r.entity_id
                      /\ result.trends[i].metric_name = r.metric_name )
                    => /\ result.trends[i].previous_period_available = FALSE
                       /\ result.trends[i].change_pct = 0
                       /\ result.trends[i].direction = "flat"
                       /\ result.trends[i].signal = "insufficient_data"

\* Clicks counted in the window after a previous window that recorded zero
\* clicks are reported as insufficient data, beside a spend signal that has
\* a baseline.
C6_Witness ==
    /\ result.kind = "trends"
    /\ \E i, j \in DOMAIN result.trends :
          /\ result.trends[i].metric_name = "clicks"
          /\ result.trends[i].current_value > 0
          /\ PreviousTotal("c1", "clicks") = 0
          /\ EntityRows("c1", "clicks", window[1] - 1, window[1] - 1) # {}
          /\ result.trends[i].signal = "insufficient_data"
          /\ result.trends[i].previous_period_available = FALSE
          /\ result.trends[j].metric_name = "spend"
          /\ result.trends[j].previous_period_available = TRUE

(***************************************************************************)
(* fatigue_engine.py                                                       *)
(***************************************************************************)
FREQUENCY_THRESHOLDS == [low |-> 3, medium |-> 5, high |-> 7, critical |-> 10]
CTR_DECLINE_THRESHOLD == -15
CPC_RISE_THRESHOLD == 20

fatigue_order == <<"none", "low", "medium", "high", "critical">>

\* fatigue_order.index(level)
FatigueIndex(level) == CHOOSE i \in DOMAIN fatigue_order : fatigue_order[i] = level

\* The level of an average that has to exceed a threshold to reach it.
FrequencyLevelAbove(sum, n) ==
    IF sum > FREQUENCY_THRESHOLDS["critical"] * n THEN "critical"
    ELSE IF sum > FREQUENCY_THRESHOLDS["high"] * n THEN "high"
    ELSE IF sum > FREQUENCY_THRESHOLDS["medium"] * n THEN "medium"
    ELSE IF sum > FREQUENCY_THRESHOLDS["low"] * n THEN "low"
    ELSE "none"

\* The level of the average sum / n of n >= 1 frequencies: the first of
\* critical, high, medium, low whose threshold the average reaches.
FrequencyLevel(sum, n) ==
    IF sum >= FREQUENCY_THRESHOLDS["critical"] * n THEN "critical"
    ELSE IF sum >= FREQUENCY_THRESHOLDS["high"] * n THEN "high"
    ELSE IF sum >= FREQUENCY_THRESHOLDS["medium"] * n THEN "medium"
    ELSE IF sum >= FREQUENCY_THRESHOLDS["low"] * n THEN "low"
    ELSE "none"

\* An upgrade that steps past the end of fatigue_order back to its start.
UpgradeWrapping(entity_fatigue, ctr_declining, cpc_rising) ==
    IF entity_fatigue # "none" /\ (ctr_declining \/ cpc_rising)
      THEN fatigue_order[(FatigueIndex(entity_fatigue) % Len(fatigue_order)) + 1]
      ELSE entity_fatigue

\* An upgrade of one step for each of the two confirmations.
UpgradePerSignal(entity_fatigue, ctr_declining, cpc_rising) ==
    LET steps == (IF ctr_declining THEN 1 ELSE 0) + (IF cpc_rising THEN 1 ELSE 0)
        idx   == FatigueIndex(entity_fatigue) + steps
    IN  IF entity_fatigue # "none"
          THEN fatigue_order[IF idx < Len(fatigue_order) THEN idx
                             ELSE Len(fatigue_order)]
          ELSE entity_fatigue

\* "Upgrade fatigue if trends confirm it"
Upgrade(entity_fatigue, ctr_declining, cpc_rising) ==
    IF entity_fatigue # "none" /\ (ctr_declining \/ cpc_rising)
      THEN LET idx == FatigueIndex(entity_fatigue)
           IN  IF idx < Len(fatigue_order)
                 THEN fatigue_order[IF idx + 1 < Len(fatigue_order) THEN idx + 1
                                    ELSE Len(fatigue_order)]
                 ELSE entity_fatigue
      ELSE entity_fatigue

\* The flags the loop over trend_signals sets for one entity.
CtrDeclining(signals, entity_id) ==
    \E i \in DOMAIN signals :
        /\ signals[i].entity_id = entity_id
        /\ signals[i].metric_name = "ctr"
        /\ signals[i].change_pct <= CTR_DECLINE_THRESHOLD * PctScale

CpcRising(signals, entity_id) ==
    \E i \in DOMAIN signals :
        /\ signals[i].entity_id = entity_id
        /\ signals[i].metric_name = "cpc"
        /\ signals[i].change_pct >= CPC_RISE_THRESHOLD * PctScale

\* The frequency rows of the window.
FrequencyRows(table, w, entity_type) ==
    {r \in RowsIn(table, entity_type, w) : r.metric_name = "frequency"}

\* The entity ids of the row sequence, in the order of their first row.
RECURSIVE FirstSeen(_, _, _)
FirstSeen(rows, i, seen) ==
    IF i > Len(rows) THEN <<>>
    ELSE IF rows[i].entity_id \in seen THEN FirstSeen(rows, i + 1, seen)
    ELSE <<rows[i].entity_id>> \o FirstSeen(rows, i + 1, seen \cup {rows[i].entity_id})

\* entity_names[entity_id]: the name on the last row of the entity.
LastName(rows, entity_id) ==
    LET is == {i \in DOMAIN rows : rows[i].entity_id = entity_id}
    IN  rows[CHOOSE i \in is : \A j \in is : j <= i].entity_name

\* The entry of one entity of freq_sums; fatigue_level "none" is not appended.
EntityFatigue(table, rows, entity_type, signals, entity_id) ==
    LET mine == {rows[i] : i \in {j \in DOMAIN rows : rows[j].entity_id = entity_id}}
        sum  == SumValues(table, mine)
        n    == SumSet(mine, [r \in mine |-> CopiesIn(r, table)])
        ctr  == CtrDeclining(signals, entity_id)
        cpc  == CpcRising(signals, entity_id)
    IN  [entity_id |-> entity_id,
         entity_name |-> LastName(rows, entity_id),
         entity_type |-> entity_type,
         fatigue_level |-> Upgrade(FrequencyLevel(sum, n), ctr, cpc),
         avg_frequency |-> RoundDiv(sum * PctScale, n),
         ctr_declining |-> ctr,
         cpc_rising |-> cpc]

\* The level of the entity appended last.
LastFatigue(affected) ==
    IF affected = <<>> THEN "none" ELSE affected[Len(affected)].fatigue_level

\* max_fatigue after the loop: it starts as "none" and is replaced by every
\* appended level of a greater index in fatigue_order.
MaxFatigue(affected) ==
    LET top == {FatigueIndex(affected[i].fatigue_level) : i \in DOMAIN affected}
    IN  IF top = {} THEN "none"
        ELSE fatigue_order[CHOOSE i \in top : \A j \in top : j <= i]

\* compute_fatigue; rows is freq_rows in the order the query returned them.
compute_fatigue(table, rows, entity_type, signals) ==
    LET ids      == FirstSeen(rows, 1, {})
        all      == [i \in DOMAIN ids |->
                        EntityFatigue(table, rows, entity_type, signals, ids[i])]
        affected == SelectSeq(all, LAMBDA a : a.fatigue_level # "none")
        count(P(_)) == Len(SelectSeq(affected, P))
        high     == count(LAMBDA a : a.fatigue_level \in {"high", "critical"})
        ctrs     == count(LAMBDA a : a.ctr_declining)
        cpcs     == count(LAMBDA a : a.cpc_rising)
    IN  [fatigue_level |-> MaxFatigue(affected),
         affected_entities |-> affected,
         signals |->
            (IF high > 0 THEN <<<<high, "entities with high/critical fatigue">>>> ELSE <<>>)
            \o (IF ctrs > 0 THEN <<<<ctrs, "entities with declining CTR">>>> ELSE <<>>)
            \o (IF cpcs > 0 THEN <<<<cpcs, "entities with rising CPC">>>> ELSE <<>>)]

(***************************************************************************)
(* SpecFatigue: compute_fatigue over frequencies around every threshold    *)
(* and trend signals around the two confirmation thresholds                *)
(***************************************************************************)
FrequencyValues == {0, 2, 3, 5, 7, 9, 10}
SecondDayValues == {0 - 1, 4, 10}
OtherAdValues == {2, 6}

\* Ad a1 with frequency f1 on day 1 and, unless f2 = -1, f2 on day 2 under
\* a new name; ad a2 with frequency f3; a campaign that has a frequency too.
FatigueStore(f1, f2, f3) ==
    SetToBag(
        {Rec("ad", "a1", "Ad one", 1, "frequency", f1),
         Rec("ad", "a1", "Ad one", 1, "impressions", 4),
         Rec("ad", "a2", "Ad two", 1, "frequency", f3),
         Rec("campaign", "c1", "Summer", 1, "frequency", 10)}
        \cup (IF f2 < 0 THEN {}
              ELSE {Rec("ad", "a1", "Ad one v2", 2, "frequency", f2)}))

\* A trend signal of change_pct c / PctScale over a baseline of 100.
Sig(entity_id, metric_name, c) ==
    LET d == _direction([n |-> c, d |-> PctScale])
    IN  TrendSignal(metric_name, "campaign", entity_id, "", 100 * PctScale + c,
                    100 * PctScale, c, d, _signal(metric_name, d), TRUE)

SignalChoices ==
    {Sig(e, x[1], x[2]) :
        e \in {"a1", "a2"},
        x \in {<<"ctr", -1500>>, <<"ctr", -1499>>, <<"cpc", 2000>>,
               <<"cpc", 1999>>, <<"clicks", -5000>>}}

InitFatigue ==
    /\ \E f1 \in FrequencyValues, f2 \in SecondDayValues, f3 \in OtherAdValues :
          metrics = FatigueStore(f1, f2, f3)
    /\ window \in {<<1, 1>>, <<1, 2>>}
    /\ trend_signals \in UNION {[1..n -> SignalChoices] : n \in 0..MaxSignals}
    /\ result = [kind |-> "none"]
    /\ IdleNorm
    /\ IdleRace
    /\ IdlePipe

ComputeFatigue ==
    /\ \E rows \in Orderings(FrequencyRows(metrics, window, "ad")) :
          result' = [kind |-> "fatigue",
                     fatigue |-> compute_fatigue(metrics, rows, "ad", trend_signals)]
    /\ UNCHANGED <<metrics, normVars, raceVars, window, trend_signals, pipeVars>>

NextFatigue == ComputeFatigue

SpecFatigue == InitFatigue /\ [][NextFatigue]_vars

FatigueLevels == {"none", "low", "medium", "high", "critical"}

\* The ads that have a frequency record in the window.
FrequencyEntities ==
    {r.entity_id : r \in {x \in BagToSet(metrics) :
        /\ x.entity_type = "ad" /\ x.metric_name = "frequency"
        /\ x.date >= window[1] /\ x.date <= window[2]}}

\* The level the average frequency of the ad maps to.
BaseLevel(entity_id) ==
    LET S == {x \in BagToSet(metrics) :
                /\ x.entity_type = "ad" /\ x.metric_name = "frequency"
                /\ x.entity_id = entity_id
                /\ x.date >= window[1] /\ x.date <= window[2]}
    IN  FrequencyLevel(SumSet(S, [r \in S |-> r.metric_value]), Cardinality(S))

\* The supplied signals hold a ctr change <= -15% or a cpc change >= +20%
\* for the entity.
Qualifying(entity_id) ==
    \E i \in DOMAIN trend_signals :
        /\ trend_signals[i].entity_id = entity_id
        /\ \/ /\ trend_signals[i].metric_name = "ctr"
              /\ trend_signals[i].change_pct <= (0 - 15) * PctScale
           \/ /\ trend_signals[i].metric_name = "cpc"
              /\ trend_signals[i].change_pct >= 20 * PctScale

\* The level compute_fatigue reports for the entity: the one of its entry
\* in affected_entities, none without an entry.
FinalLevel(entity_id) ==
    LET a  == result.fatigue.affected_entities
        is == {i \in DOMAIN a : a[i].entity_id = entity_id}
    IN  IF is = {} THEN "none" ELSE a[CHOOSE i \in is : TRUE].fatigue_level

LevelAbove(level) ==
    CASE level = "none" -> "low"
      [] level = "low" -> "medium"
      [] level = "medium" -> "high"
      [] level = "high" -> "critical"
      [] level = "critical" -> "critical"

\* C9: every level compute_fatigue reports after escalation is one of none,
\* low, medium, high, critical, and an entity whose frequency-derived level
\* is critical stays critical when a qualifying CTR-decline or CPC-rise
\* signal is present.
C9_LevelsClosedCriticalStays ==
    result.kind = "fatigue" =>
        /\ result.fatigue.fatigue_level \in FatigueLevels
        /\ \A i \in DOMAIN result.fatigue.affected_entities :
              result.fatigue.affected_entities[i].fatigue_level \in FatigueLevels
        /\ \A e \in FrequencyEntities :
              (BaseLevel(e) = "critical" /\ Qualifying(e)) => FinalLevel(e) = "critical"

\* An ad averaging 10 with a confirmed CTR decline is reported critical.
C9_Witness ==
    /\ result.kind = "fatigue"
    /\ BaseLevel("a1") = "critical"
    /\ Qualifying("a1")
    /\ FinalLevel("a1") = "critical"
    /\ result.fatigue.fatigue_level = "critical"

\* C10 as stated: every level below critical, none included, goes exactly
\* one step up with a qualifying signal and is unchanged without one.
C10_EscalatesFromAnyLevel ==
    result.kind = "fatigue" =>
        \A e \in FrequencyEntities :
            BaseLevel(e) # "critical" =>
                FinalLevel(e) = IF Qualifying(e) THEN LevelAbove(BaseLevel(e))
                                ELSE BaseLevel(e)

\* C10 (amended): an entity whose frequency-derived level is low, medium or
\* high goes exactly one step up when the supplied signals hold a ctr change
\* <= -15 or a cpc change >= 20 for it (one step also when both hold); an
\* entity whose frequency-derived level is none stays none even then; without
\* such a signal every level is unchanged; each entity is reported once.
C10_EscalatesOneStepAboveNone ==
    result.kind = "fatigue" =>
        \A e \in FrequencyEntities :
            /\ FinalLevel(e) =
                 IF Qualifying(e) /\ BaseLevel(e) \in {"low", "medium", "high"}
                   THEN LevelAbove(BaseLevel(e))
                   ELSE BaseLevel(e)
            /\ Cardinality({i \in DOMAIN result.fatigue.affected_entities :
                  result.fatigue.affected_entities[i].entity_id = e}) <= 1

\* The ad averaging 8.5 (7 and 10) with both a CTR decline and a CPC rise
\* goes from high to critical, while an ad below 3 with the same kind of
\* signal stays unreported.
C10_Witness ==
    /\ result.kind = "fatigue"
    /\ window = <<1, 2>>
    /\ BaseLevel("a1") = "high"
    /\ \E i, j \in DOMAIN trend_signals :
          /\ trend_signals[i].entity_id = "a1" /\ trend_signals[i].metric_name = "ctr"
          /\ trend_signals[i].change_pct <= (0 - 15) * PctScale
          /\ trend_signals[j].entity_id = "a1" /\ trend_signals[j].metric_name = "cpc"
          /\ trend_signals[j].change_pct >= 20 * PctScale
    /\ FinalLevel("a1") = "critical"
    /\ BaseLevel("a2") = "medium"
    /\ FinalLevel("a2") = "medium"

(***************************************************************************)
(* pipeline.py: _compute_confidence                                        *)
(***************************************************************************)
\* round(x, 3): a breakdown factor f is kept as the integer f * FactorScale.
FactorScale == 1000

\* min(entity_count / 5, 1.0) without the min, as fifths.
SampleFifthsUnclamped(entity_count) == entity_count

\* min(entity_count / 5, 1.0), as fifths.
SampleFifths(entity_count) == IF entity_count < 5 THEN entity_count ELSE 5

\* The integer nearest to FactorScale * sqrt(q / b), for 0 <= q < b.
ScaledRoot(q, b) ==
    CHOOSE m \in 0..FactorScale :
        /\ 4 * FactorScale * FactorScale * q < (2 * m + 1) * (2 * m + 1) * b
        /\ m = 0 \/ (2 * m - 1) * (2 * m - 1) * b <= 4 * FactorScale * FactorScale * q

\* volume_stability * FactorScale from the daily impression totals (a
\* function from dates to sums).  With n values of sum S the coefficient of
\* variation is sqrt(Q / (n * S^2)), Q the sum of the (n * v - S)^2.
VolumeStability(daily_impressions) ==
    LET days == DOMAIN daily_impressions
        n    == Cardinality(days)
        S    == SumSet(days, daily_impressions)
        Q    == SumSet(days, [d \in days |->
                    (n * daily_impressions[d] - S) * (n * daily_impressions[d] - S)])
    IN  IF n > 1
          THEN IF S > 0
                 THEN (IF Q >= n * S * S THEN 0
                       ELSE FactorScale - ScaledRoot(Q, n * S * S))
                 ELSE 0
          ELSE FactorScale \div 2

\* _compute_confidence: the score in 1/10000 and the breakdown in 1/1000.
\* The score is taken from the exact completeness, sample and coverage
\* factors and from volume_stability at the resolution of the breakdown.
_compute_confidence(table, w) ==
    LET rows == {r \in BagToSet(table) :
                    r.source = "meta" /\ r.date >= w[1] /\ r.date <= w[2]}
        expected_days == (w[2] - w[1]) + 1
        actual_days   == Cardinality({r.date : r \in rows})
        complete      == actual_days >= expected_days
        entity_count  == Cardinality({r.entity_id : r \in rows})
        fifths        == SampleFifths(entity_count)
        covered       == Cardinality({r.metric_name : r \in rows}
                            \cap {"impressions", "clicks", "spend", "ctr", "cpc"})
        imp           == {r \in rows : r.metric_name = "impressions"}
        daily         == [d \in {r.date : r \in imp} |->
                            SumValues(table, {r \in imp : r.date = d})]
        stability     == VolumeStability(daily)
    IN  IF rows = {}
          THEN [score |-> 0,
                breakdown |-> [data_completeness |-> 0, sample_size_factor |-> 0,
                               metric_coverage |-> 0, volume_stability |-> 0]]
          ELSE [score |->
                    (IF expected_days > 0
                       THEN (IF complete THEN 3 * FactorScale
                             ELSE RoundDiv(3 * FactorScale * actual_days, expected_days))
                       ELSE 0)
                    + 2 * (FactorScale \div 5) * fifths
                    + 3 * (FactorScale \div 5) * covered
                    + 2 * stability,
                breakdown |->
                    [data_completeness |->
                        IF expected_days > 0
                          THEN (IF complete THEN FactorScale
                                ELSE RoundDiv(FactorScale * actual_days, expected_days))
                          ELSE 0,
                     sample_size_factor |-> (FactorScale \div 5) * fifths,
                     metric_coverage |-> (FactorScale \div 5) * covered,
                     volume_stability |-> stability]]

(***************************************************************************)
(* SpecConfidence: _compute_confidence over empty, sparse and uneven       *)
(* windows                                                                 *)
(***************************************************************************)
\* Campaign c1 with impressions imp[d] on day d (no record when negative),
\* and `extra` further entities that carry the metrics of `names` on day 1.
ConfidenceStore(imp, extra, names) ==
    SetToBag(
        {Rec("campaign", "c1", "Summer", d, "impressions", imp[d]) :
            d \in {x \in DOMAIN imp : imp[x] >= 0}}
        \cup {Rec("ad", e, "Ad", 1, n, 1) :
                e \in {<<"a1", "a2", "a3", "a4", "a5">>[i] : i \in 1..extra},
                n \in names})

PipeWindows == {<<1, 1>>, <<1, 2>>}

ConfidenceWindows == {<<1, 1>>, <<1, 3>>, <<2, 3>>, <<4, 4>>}

InitConfidence ==
    /\ \E imp \in [1..3 -> (0 - 1)..MaxVal], extra \in {0, 4, 5},
          names \in {{"reach"}, {"clicks"}, {"clicks", "spend", "ctr", "cpc"}} :
          metrics = ConfidenceStore(imp, extra, names)
    /\ window \in ConfidenceWindows
    /\ trend_signals = <<>>
    /\ result = [kind |-> "none"]
    /\ IdleNorm
    /\ IdleRace
    /\ IdlePipe

ComputeConfidence ==
    /\ result' = [kind |-> "confidence",
                  confidence |-> _compute_confidence(metrics, window)]
    /\ UNCHANGED <<metrics, normVars, raceVars, window, trend_signals, pipeVars>>

NextConfidence == ComputeConfidence

SpecConfidence == InitConfidence /\ [][NextConfidence]_vars

\* The breakdown factors of the result.
Factors ==
    {result.confidence.breakdown[f] :
        f \in {"data_completeness", "sample_size_factor", "metric_coverage",
               "volume_stability"}}

\* C8: _compute_confidence returns a score in [0, 1] and four breakdown
\* factors in [0, 1]; when the window holds no normalized metric, the score
\* and the four factors are exactly 0.
C8_ConfidenceInUnitInterval ==
    result.kind = "confidence" =>
        /\ result.confidence.score >= 0
        /\ result.confidence.score <= 10 * FactorScale
        /\ \A f \in Factors : f >= 0 /\ f <= FactorScale
        /\ (\A r \in BagToSet(metrics) : r.date < window[1] \/ r.date > window[2])
              => (result.confidence.score = 0 /\ Factors = {0})

\* Six entities and impressions on three days that vary by more than their
\* mean: the sample factor and the stability factor are both at a clamp.
C8_Witness ==
    /\ result.kind = "confidence"
    /\ Cardinality({r.entity_id : r \in BagToSet(metrics)}) = 6
    /\ window = <<1, 3>>
    /\ \E d \in 1..3 : Rec("campaign", "c1", "Summer", d, "impressions", 0)
                          \in BagToSet(metrics)
    /\ result.confidence.breakdown.sample_size_factor = FactorScale
    /\ result.confidence.breakdown.volume_stability = 0
    /\ result.confidence.breakdown.data_completeness = FactorScale
    /\ result.confidence.score > 0

(***************************************************************************)
(* opportunity_engine.py                                                   *)
(***************************************************************************)
HIGH_ROAS_THRESHOLD == 3
HIGH_ENGAGEMENT_RATE == 2
LOW_CTR_THRESHOLD == 1
\* 0.3 and 0.7
LOW_SPEND_PERCENTILE == [n |-> 3, d |-> 10]
LOW_CPC_THRESHOLD_RATIO == [n |-> 7, d |-> 10]

\* The entity ids of a KPI list, in the order they first occur.
RECURSIVE KpiEntityIds(_, _, _)
KpiEntityIds(kpis, i, seen) ==
    IF i > Len(kpis) THEN <<>>
    ELSE IF kpis[i].entity_id \in seen THEN KpiEntityIds(kpis, i + 1, seen)
    ELSE <<kpis[i].entity_id>>
           \o KpiEntityIds(kpis, i + 1, seen \cup {kpis[i].entity_id})

\* entity_kpis[entity_id].get(name, 0): the last KPI of that id and name.
KpiValue(kpis, entity_id, name) ==
    LET is == {i \in DOMAIN kpis :
                 kpis[i].entity_id = entity_id /\ kpis[i].name = name}
    IN  IF is = {} THEN 0 ELSE kpis[CHOOSE i \in is : \A j \in is : j <= i].value

\* entity_names[entity_id]: the name on the first KPI of that id.
KpiEntityName(kpis, entity_id) ==
    LET is == {i \in DOMAIN kpis : kpis[i].entity_id = entity_id}
    IN  kpis[CHOOSE i \in is : \A j \in is : i <= j].entity_name

Opportunity(type, entity_id, entity_name, potential_impact) ==
    [type |-> type, entity_type |-> "campaign", entity_id |-> entity_id,
     entity_name |-> entity_name, potential_impact |-> potential_impact]

\* A threshold taken from the mean over all entities, those at 0 included.
MeanShareOfAll(kpis, ids, name, ratio) ==
    LET all == DOMAIN ids
        sum == SumSet(all, [i \in all |-> KpiValue(kpis, ids[i], name)])
    IN  IF all = {} THEN [n |-> 0, d |-> 1]
        ELSE [n |-> sum * ratio.n, d |-> Cardinality(all) * ratio.d]

\* spend_threshold and cpc_threshold: mean(positive values of `name`) * ratio
\* as the exact quotient n / d, the mean being 0 when no entity has a
\* positive value.
MeanShare(kpis, ids, name, ratio) ==
    LET pos == {i \in DOMAIN ids : KpiValue(kpis, ids[i], name) > 0}
        sum == SumSet(pos, [i \in pos |-> KpiValue(kpis, ids[i], name)])
    IN  IF pos = {} THEN [n |-> 0, d |-> 1]
        ELSE [n |-> sum * ratio.n, d |-> Cardinality(pos) * ratio.d]

\* v <= threshold
AtMostShareOfMean(kpis, ids, name, v, ratio) ==
    LET threshold == MeanShare(kpis, ids, name, ratio)
    IN  v * threshold.d <= threshold.n

\* The opportunities of one entity, in the order of the four rules.
EntityOpportunities(kpis, ids, entity_id) ==
    LET name     == KpiEntityName(kpis, entity_id)
        roas     == KpiValue(kpis, entity_id, "roas")
        spend    == KpiValue(kpis, entity_id, "spend")
        ctr      == KpiValue(kpis, entity_id, "ctr")
        cpc      == KpiValue(kpis, entity_id, "cpc")
        eng_rate == KpiValue(kpis, entity_id, "engagement_rate")
    IN  (IF /\ roas >= HIGH_ROAS_THRESHOLD * KpiScale
            /\ spend > 0
            /\ AtMostShareOfMean(kpis, ids, "spend", spend, LOW_SPEND_PERCENTILE)
           THEN <<Opportunity("scale_up", entity_id, name, "high")>> ELSE <<>>)
        \o (IF /\ eng_rate >= HIGH_ENGAGEMENT_RATE * KpiScale
               /\ ctr < LOW_CTR_THRESHOLD * KpiScale
               /\ ctr > 0
              THEN <<Opportunity("cta_optimization", entity_id, name, "medium")>>
              ELSE <<>>)
        \o (IF /\ cpc > 0
               /\ AtMostShareOfMean(kpis, ids, "cpc", cpc, LOW_CPC_THRESHOLD_RATIO)
               /\ KpiValue(kpis, entity_id, "clicks") > 0
              THEN <<Opportunity("capitalize_efficiency", entity_id, name, "medium")>>
              ELSE <<>>)
        \o (IF roas >= HIGH_ROAS_THRESHOLD * 2 * KpiScale
              THEN <<Opportunity("protect_performer", entity_id, name, "high")>>
              ELSE <<>>)

RECURSIVE OpportunitiesFrom(_, _, _)
OpportunitiesFrom(kpis, ids, i) ==
    IF i > Len(ids) THEN <<>>
    ELSE EntityOpportunities(kpis, ids, ids[i]) \o OpportunitiesFrom(kpis, ids, i + 1)

compute_opportunities(kpis) ==
    OpportunitiesFrom(kpis, KpiEntityIds(kpis, 1, {}), 1)

(***************************************************************************)
(* pipeline.py: summary, rankings, ROAS context, risks                     *)
(***************************************************************************)
_build_meta_summary(table, w) ==
    LET rows == RowsIn(table, "account", w)
        sums(n) == SumValues(table, {r \in rows : r.metric_name = n})
    IN  [total_spend |-> sums("spend"),
         total_impressions |-> sums("impressions"),
         total_clicks |-> sums("clicks"),
         total_reach |-> sums("reach"),
         avg_ctr |-> Ratio(sums("clicks"), sums("impressions"), 100),
         avg_cpc |-> Ratio(sums("spend"), sums("clicks"), 1),
         avg_cpm |-> Ratio(sums("spend"), sums("impressions"), 1000),
         total_conversions |-> sums("conversions"),
         overall_roas |-> Ratio(sums("purchase_value"), sums("spend"), 1)]

\* A descending sort that puts the last of the entities of equal roas first.
RECURSIVE SortedByRoasTiesLast(_, _)
SortedByRoasTiesLast(kpis, ids) ==
    IF ids = <<>> THEN <<>>
    ELSE LET best == CHOOSE i \in DOMAIN ids :
                        /\ \A j \in DOMAIN ids :
                              KpiValue(kpis, ids[j], "roas") <= KpiValue(kpis, ids[i], "roas")
                        /\ \A j \in (i + 1)..Len(ids) :
                              KpiValue(kpis, ids[j], "roas") < KpiValue(kpis, ids[i], "roas")
         IN  <<ids[best]>>
               \o SortedByRoasTiesLast(kpis, SubSeq(ids, 1, best - 1)
                                               \o SubSeq(ids, best + 1, Len(ids)))

\* sorted(..., key=roas, reverse=True): stable, so of the entities of the
\* greatest roas the first one in ids comes first.
RECURSIVE SortedByRoas(_, _)
SortedByRoas(kpis, ids) ==
    IF ids = <<>> THEN <<>>
    ELSE LET best == CHOOSE i \in DOMAIN ids :
                        /\ \A j \in DOMAIN ids :
                              KpiValue(kpis, ids[j], "roas") <= KpiValue(kpis, ids[i], "roas")
                        /\ \A j \in 1..(i - 1) :
                              KpiValue(kpis, ids[j], "roas") < KpiValue(kpis, ids[i], "roas")
         IN  <<ids[best]>>
               \o SortedByRoas(kpis, SubSeq(ids, 1, best - 1)
                                       \o SubSeq(ids, best + 1, Len(ids)))

_build_rankings(kpis) ==
    LET campaign == SelectSeq(kpis, LAMBDA k : k.entity_type = "campaign")
        sorted   == SortedByRoas(campaign, KpiEntityIds(campaign, 1, {}))
    IN  [rank \in DOMAIN sorted |->
            [rank |-> rank, entity_id |-> sorted[rank],
             entity_name |-> KpiEntityName(campaign, sorted[rank]),
             primary_kpi |-> "roas",
             primary_value |-> KpiValue(campaign, sorted[rank], "roas"),
             spend |-> KpiValue(campaign, sorted[rank], "spend"),
             roas |-> KpiValue(campaign, sorted[rank], "roas")]]

\* str.upper() on the objectives the platform reports.
Upper(objective) ==
    CASE objective = "outcome_leads" -> "OUTCOME_LEADS"
      [] objective = "reach" -> "REACH"
      [] OTHER -> objective

\* The roas_context run_analysis sets on the summary.
RoasContext(campaign_objective, meta_summary) ==
    IF Upper(campaign_objective) \in {"LEAD_GENERATION", "OUTCOME_LEADS", "LEAD_GEN"}
      THEN [applicable |-> FALSE, reason |-> "lead_generation_campaign"]
    ELSE IF Upper(campaign_objective) \in {"BRAND_AWARENESS", "REACH", "OUTCOME_AWARENESS"}
      THEN [applicable |-> FALSE, reason |-> "awareness_objective"]
    ELSE IF meta_summary.overall_roas = 0 /\ meta_summary.total_conversions = 0
      THEN [applicable |-> FALSE, reason |-> "no_conversion_value_tracked"]
    ELSE [applicable |-> TRUE, reason |-> "applicable"]

Abs(x) == IF x < 0 THEN 0 - x ELSE x

Risk(t) ==
    [type |-> "trend_alert",
     description |-> <<t.metric_name, t.direction, t.change_pct, t.entity_name>>,
     severity |-> IF Abs(t.change_pct) > 50 * PctScale THEN "high" ELSE "medium",
     entity_type |-> t.entity_type, entity_id |-> t.entity_id]

\* Risks that take a change of exactly 25% in as well.
RisksInclusive(trends) ==
    LET alerts == SelectSeq(trends, LAMBDA t :
                     /\ t.previous_period_available
                     /\ t.signal = "alert"
                     /\ Abs(t.change_pct) >= 25 * PctScale)
    IN  [i \in DOMAIN alerts |-> Risk(alerts[i])]

\* The risks run_analysis derives from the trend signals.
Risks(trends) ==
    LET alerts == SelectSeq(trends, LAMBDA t :
                     /\ t.previous_period_available
                     /\ t.signal = "alert"
                     /\ Abs(t.change_pct) > 25 * PctScale)
    IN  [i \in DOMAIN alerts |-> Risk(alerts[i])]

(***************************************************************************)
(* pipeline.py: run_analysis                                               *)
(*                                                                         *)
(* The runs of SpecPipe are coroutines of one event loop, each on its own  *)
(* session.  A coroutine is suspended only at an await, and run_analysis   *)
(* awaits only in its fetch stage and at client.close(): what follows the  *)
(* close (normalize, engines, report, snapshot) is one step.  Concurrent    *)
(* normalization by several processes is the subject of SpecRace.          *)
(***************************************************************************)
\* The day of datetime.now(); fetched_at and the freshness check use it.
Today == 2

\* The date columns of a raw row stored with date_start="" (fetch_campaigns).
NoDate == 0

account_currency == "INR"

RawMetaData(endpoint, entity_type, date_start, date_stop, payload) ==
    [endpoint |-> endpoint, entity_type |-> entity_type, entity_id |-> "act1",
     date_start |-> date_start, date_stop |-> date_stop, fetched_at |-> Today,
     payload_json |-> payload]

\* What the session of a run reads from raw_meta_data: the committed rows
\* and, flushed by the select, the rows the run has added.
RawView(run) == raw \o run.pending

_check_data_freshness(run) ==
    \E i \in DOMAIN RawView(run) :
        /\ RawView(run)[i].date_stop = run.window[2]
        /\ RawView(run)[i].fetched_at >= Today

\* What the platform returns for the insights of a window at any level, and
\* its campaign list, while it reports the data variant `data`: a sales
\* campaign with purchases, a leads campaign without, a leads campaign with
\* purchases.
DataVariants == {1, 2, 3}

PlatformInsights(w, data) == <<RawRow("c1", w[1], IF data = 3 THEN 1 ELSE data)>>

PlatformCampaigns(data) ==
    <<[id |-> "c1",
       objective |-> CASE data = 1 -> "OUTCOME_SALES"
                       [] data = 2 -> "outcome_leads"
                       [] data = 3 -> "LEAD_GENERATION"]>>

\* The handler that ends in a failed run instead of continuing.
OnFetchErrorAbort(run, call) ==
    [run EXCEPT !.pc = "aborted", !.failed = @ \cup {call}]

\* except Exception: the error is logged and the run goes on to the finally
\* clause, with whatever it added to its session.
OnFetchError(run, call) ==
    [run EXCEPT !.pc = "close", !.failed = @ \cup {call}]

\* A trigger calls run_analysis: the window is resolved, the client is made
\* and fetch_currency is awaited.  The daily job asks for yesterday, without
\* force.  started_at is the number of snapshots stored at that moment.
StartWith(r, windows, forces, variants) ==
    /\ runs[r].pc = "idle"
    /\ \E w \in windows, force \in forces, data \in variants :
          /\ r = "scheduler" => (w = <<Today - 1, Today - 1>> /\ ~force /\ data = 1)
          /\ runs' = [runs EXCEPT ![r] =
                [pc |-> "currency", window |-> w, force |-> force, data |-> data,
                 pending |-> <<>>, campaign_objective |-> "",
                 currency |-> account_currency, failed |-> {},
                 started_at |-> Len(snapshots), result_id |-> 0]]
    /\ UNCHANGED <<metrics, raw, snapshots, normVars, raceVars, engineVars>>

Start(r) == StartWith(r, PipeWindows, BOOLEAN, DataVariants)

\* fetch_currency returns: the platform's currency or, after any error, the
\* configured one.  Then the freshness check decides whether to fetch.
CurrencyReturns(r) ==
    /\ runs[r].pc = "currency"
    /\ \E ok \in BOOLEAN :
          runs' = [runs EXCEPT ![r] =
            [@ EXCEPT
               !.currency = IF ok THEN "USD" ELSE account_currency,
               !.failed = IF ok THEN @ ELSE @ \cup {"currency"},
               !.pc = IF ~runs[r].force /\ _check_data_freshness(runs[r])
                        THEN "close" ELSE "account"]]
    /\ UNCHANGED <<metrics, raw, snapshots, normVars, raceVars, engineVars>>

InsightCalls == <<"account", "campaign", "adset", "ad">>

NextCall(call) ==
    CASE call = "account" -> "campaign"
      [] call = "campaign" -> "adset"
      [] call = "adset" -> "ad"
      [] call = "ad" -> "campaigns"

\* One of the four fetch_*_insights calls returns or raises.
InsightsReturn(r) ==
    /\ runs[r].pc \in {InsightCalls[i] : i \in DOMAIN InsightCalls}
    /\ \E ok \in BOOLEAN :
          runs' = [runs EXCEPT ![r] =
            IF ok
              THEN [@ EXCEPT
                      !.pending = Append(@,
                          RawMetaData(runs[r].pc, runs[r].pc, runs[r].window[1],
                                      runs[r].window[2],
                                      PlatformInsights(runs[r].window, runs[r].data))),
                      !.pc = NextCall(runs[r].pc)]
              ELSE OnFetchError(@, runs[r].pc)]
    /\ UNCHANGED <<metrics, raw, snapshots, normVars, raceVars, engineVars>>

\* fetch_campaigns returns or raises; after it the objective is read and
\* endpoints.commit() commits the raw rows or raises, rolling them back.
CampaignsReturn(r) ==
    /\ runs[r].pc = "campaigns"
    /\ \E ok \in BOOLEAN, committed \in BOOLEAN :
          LET campaigns == PlatformCampaigns(runs[r].data)
              stored    == Append(runs[r].pending,
                              RawMetaData("campaigns", "campaign", NoDate, NoDate,
                                          campaigns))
          IN  IF ~ok
                THEN /\ runs' = [runs EXCEPT ![r] = OnFetchError(@, "campaigns")]
                     /\ UNCHANGED raw
              ELSE IF ~committed
                THEN /\ runs' = [runs EXCEPT ![r] =
                            OnFetchError([@ EXCEPT
                                !.campaign_objective = campaigns[1].objective,
                                !.pending = <<>>], "commit")]
                     /\ UNCHANGED raw
              ELSE /\ runs' = [runs EXCEPT ![r] =
                          [@ EXCEPT !.campaign_objective = campaigns[1].objective,
                                    !.pending = <<>>, !.pc = "close"]]
                   /\ raw' = raw \o stored
    /\ UNCHANGED <<metrics, snapshots, normVars, raceVars, engineVars>>

\* Step 3: the raw rows of exactly this window, in id order.
RawEntries(run) ==
    SelectSeq(RawView(run), LAMBDA e :
        e.date_start = run.window[1] /\ e.date_stop = run.window[2])

\* A step 3 that empties the store and rebuilds it from the raw rows of the
\* window.
RECURSIVE NormalizeAllRebuild(_, _, _)
NormalizeAllRebuild(table, entries, i) ==
    IF i > Len(entries) THEN table
    ELSE NormalizeAllRebuild(
            transform_insights(IF i = 1 THEN EmptyBag ELSE table,
                               entries[i].payload_json,
                               entries[i].entity_type).table,
            entries, i + 1)

\* The loop of step 3: every entry's payload goes through transform_insights
\* at the level of its entity_type.
RECURSIVE NormalizeAll(_, _, _)
NormalizeAll(table, entries, i) ==
    IF i > Len(entries) THEN table
    ELSE NormalizeAll(
            transform_insights(table, entries[i].payload_json,
                               entries[i].entity_type).table,
            entries, i + 1)

\* Steps 4 and 5 on the store `table`: the engines and the report.  The
\* three orders are those of the rows the engine queries returned.
InsightOutput(run, table, entities, keys, rows) ==
    LET w        == run.window
        kpis     == compute_kpis(table, w, "campaign", entities)
        trends   == compute_trends(table, w, "campaign", keys)
        summary  == _build_meta_summary(table, w)
        conf     == _compute_confidence(table, w)
    IN  [currency |-> run.currency,
         date_range_start |-> w[1],
         date_range_end |-> w[2],
         meta_summary |-> summary,
         roas_context |-> RoasContext(run.campaign_objective, summary),
         campaign_objective |-> run.campaign_objective,
         kpis |-> kpis,
         campaign_rankings |-> _build_rankings(kpis),
         trend_signals |-> trends,
         fatigue_analysis |-> compute_fatigue(table, rows, "ad", trends),
         opportunities |-> compute_opportunities(kpis),
         risks |-> Risks(trends),
         confidence_score |-> conf.score,
         confidence_breakdown |-> conf.breakdown]

AnalysisResult(date_range_start, date_range_end, result_json) ==
    [date_range_start |-> date_range_start, date_range_end |-> date_range_end,
     result_json |-> result_json]

\* A table that keeps only its latest row.
StoreResultLatest(table, row) == <<row>>

\* Step 6: session.add(result) and session.commit().
StoreResult(table, row) == Append(table, row)

\* client.close() returns: steps 3 to 6.  The select of step 3 flushes the
\* raw rows still pending in the session, and the commits that follow make
\* them permanent together with the metrics and the snapshot.
CloseReturns(r) ==
    /\ runs[r].pc = "close"
    /\ LET run   == runs[r]
           table == NormalizeAll(metrics, RawEntries(run), 1)
       IN  \E entities \in Orderings(DistinctEntities(table, "campaign", run.window)),
              keys \in Orderings(TrendKeys(table, run.window, "campaign")),
              rows \in Orderings(FrequencyRows(table, run.window, "ad")) :
              LET report == InsightOutput(run, table, entities, keys, rows)
              IN  /\ metrics' = table
                  /\ raw' = RawView(run)
                  /\ snapshots' = StoreResult(snapshots,
                        AnalysisResult(run.window[1], run.window[2], report))
                  /\ runs' = [runs EXCEPT ![r] =
                        [@ EXCEPT !.pc = "done", !.pending = <<>>,
                                  !.result_id = Len(snapshots) + 1]]
    /\ UNCHANGED <<normVars, raceVars, engineVars>>

\* The records transform_insights derives from the payload of a raw row.
PayloadRecordSet(entry) ==
    LET recs == PayloadRecords(entry.payload_json, entry.entity_type, 1)
    IN  {recs[i] : i \in DOMAIN recs}

\* The next step of the coroutine of trigger r.
RunStep(r) ==
    \/ CurrencyReturns(r)
    \/ InsightsReturn(r)
    \/ CampaignsReturn(r)
    \/ CloseReturns(r)

\* Empty tables and no run.
InitPipe ==
    /\ raw = <<>>
    /\ metrics = EmptyBag
    /\ snapshots = <<>>
    /\ runs = [r \in RunIds |-> IdleRun]
    /\ IdleNorm
    /\ IdleRace
    /\ IdleEngines

NextPipe == \E r \in RunIds : Start(r) \/ RunStep(r)

SpecPipe == InitPipe /\ [][NextPipe]_vars

\* The positions at which a run waits for an awaited call to return.
Awaiting == {"currency", "account", "campaign", "adset", "ad", "campaigns", "close"}

\* The raw rows stored for the window of run r.
WindowEntries(r) ==
    SelectSeq(raw, LAMBDA e :
        e.date_start = runs[r].window[1] /\ e.date_stop = runs[r].window[2])

\* Every engine's part of the report is there.
ReportComplete(report) ==
    {"kpis", "trend_signals", "fatigue_analysis", "opportunities",
     "campaign_rankings", "meta_summary", "risks", "confidence_score"}
        \subseteq DOMAIN report

Completing == {r \in RunIds : runs[r].pc # "done" /\ runs'[r].pc = "done"}

\* C5: in every step the snapshots stored so far stay present and
\* unchanged, and each run that completes adds exactly one snapshot, whose
\* date_range_start and date_range_end are the window the run resolved;
\* nothing else adds a snapshot.
C5_SnapshotsAppendOnly ==
    [][/\ Len(snapshots') >= Len(snapshots)
       /\ SubSeq(snapshots', 1, Len(snapshots)) = snapshots
       /\ Len(snapshots') = Len(snapshots) + Cardinality(Completing)
       /\ \A r \in Completing :
             /\ snapshots'[Len(snapshots')].date_range_start = runs[r].window[1]
             /\ snapshots'[Len(snapshots')].date_range_end = runs[r].window[2]
             /\ runs'[r].result_id = Len(snapshots')]_vars

\* Two overlapping runs have left two snapshots: the daily job started before
\* the forced API run over another window had stored its snapshot, and
\* stored its own after it.
C5_Witness ==
    /\ runs["api"].pc = "done"
    /\ runs["scheduler"].pc = "done"
    /\ runs["api"].result_id = 1
    /\ runs["scheduler"].result_id = 2
    /\ runs["scheduler"].started_at = 0
    /\ Len(snapshots) = 2
    /\ snapshots[1].date_range_start = 1 /\ snapshots[1].date_range_end = 2
    /\ snapshots[2].date_range_start = 1 /\ snapshots[2].date_range_end = 1

(***************************************************************************)
(* SpecAdFatigue: the engine calls of run_analysis.  The trends are those  *)
(* of the campaigns; compute_fatigue analyses the ads and is handed these  *)
(* campaign trends as its trend_signals.                                   *)
(***************************************************************************)
AdFrequencies == {2, 4, 8}
CpcValues == {4, 5, 6, 7}
CpcBaselines == {0, 4}

\* Ad a1 with frequency f on day 3 and its own ctr and cpc on days 2 and 3;
\* campaign c1 with its own ctr, cpc and spend on the same days.
AdStore(f, ad, campaign) ==
    SetToBag(
        {Rec("ad", "a1", "Ad one", 3, "frequency", f),
         Rec("ad", "a1", "Ad one", 2, "ctr", ad.ctr_prev),
         Rec("ad", "a1", "Ad one", 3, "ctr", ad.ctr),
         Rec("ad", "a1", "Ad one", 2, "cpc", 1),
         Rec("ad", "a1", "Ad one", 3, "cpc", ad.cpc),
         Rec("campaign", "c1", "Summer", 2, "ctr", 2),
         Rec("campaign", "c1", "Summer", 3, "ctr", campaign.ctr),
         Rec("campaign", "c1", "Summer", 2, "cpc", campaign.cpc_prev),
         Rec("campaign", "c1", "Summer", 3, "cpc", campaign.cpc),
         Rec("campaign", "c1", "Summer", 2, "spend", 2),
         Rec("campaign", "c1", "Summer", 3, "spend", campaign.spend)})

InitAdFatigue ==
    /\ \E f \in AdFrequencies,
          ad \in [ctr_prev : 1..MaxVal, ctr : 1..MaxVal, cpc : 1..MaxVal],
          campaign \in [ctr : 1..MaxVal, cpc_prev : CpcBaselines,
                        cpc : CpcValues, spend : {2, 4}] :
          metrics = AdStore(f, ad, campaign)
    /\ window \in {<<3, 3>>, <<2, 3>>}
    /\ trend_signals = <<>>
    /\ result = [kind |-> "none"]
    /\ IdleNorm
    /\ IdleRace
    /\ IdlePipe

\* Steps 4 and 5 of run_analysis as far as trends, fatigue and risks go.
RunEngines ==
    /\ \E keys \in Orderings(TrendKeys(metrics, window, "campaign")),
          rows \in Orderings(FrequencyRows(metrics, window, "ad")) :
          LET trends == compute_trends(metrics, window, "campaign", keys)
          IN  /\ trend_signals' = trends
              /\ result' = [kind |-> "engines",
                            fatigue |-> compute_fatigue(metrics, rows, "ad", trends),
                            risks |-> Risks(trends)]
    /\ UNCHANGED <<metrics, normVars, raceVars, window, pipeVars>>

NextAdFatigue == RunEngines

SpecAdFatigue == InitAdFatigue /\ [][NextAdFatigue]_vars

\* The trend signals of the ads themselves over the window.
OwnSignals ==
    compute_trends(metrics, window, "ad",
                   CHOOSE keys \in Orderings(TrendKeys(metrics, window, "ad")) : TRUE)

\* The ad's own ctr fell by at least 15% or its own cpc rose by at least 20%.
OwnQualifying(entity_id) ==
    CtrDeclining(OwnSignals, entity_id) \/ CpcRising(OwnSignals, entity_id)

\* C11: in run_analysis an ad is escalated by its own trend signals: an ad
\* with average frequency >= 3 (and below critical) whose own ctr fell by at
\* least 15% or whose own cpc rose by at least 20% against the previous
\* window is reported one level higher, and without such a signal of its own
\* it is reported at its frequency-derived level.
C11_AdEscalatedByOwnSignals ==
    result.kind = "engines" =>
        \A e \in FrequencyEntities :
            FinalLevel(e) =
                IF OwnQualifying(e) /\ BaseLevel(e) \in {"low", "medium", "high"}
                  THEN LevelAbove(BaseLevel(e))
                  ELSE BaseLevel(e)

(***************************************************************************)
(* SpecOpp: compute_opportunities over KPI lists in which some entities    *)
(* have a spend or a cpc of 0                                              *)
(***************************************************************************)
OppEntities == <<"c1", "c2", "c3">>
SpendValues == {0, 1, 6}
RoasValues == {0, 3}

\* The KPIs of one entity of the list.
OppKpis(entity_id, v) ==
    LET K(name, value) ==
            KPIMetric(name, value * KpiScale, "", "campaign", entity_id, entity_id)
    IN  <<K("cpc", v.cpc), K("roas", v.roas), K("spend", v.spend), K("clicks", 1)>>

OppInputs == [spend : SpendValues, cpc : 0..MaxVal, roas : RoasValues]

InitOpp ==
    /\ \E v \in [DOMAIN OppEntities -> OppInputs] :
          result = [kind |-> "kpis",
                    kpis |-> OppKpis(OppEntities[1], v[1])
                               \o OppKpis(OppEntities[2], v[2])
                               \o OppKpis(OppEntities[3], v[3])]
    /\ window = <<1, 1>>
    /\ trend_signals = <<>>
    /\ metrics = EmptyBag
    /\ IdleNorm
    /\ IdleRace
    /\ IdlePipe

ComputeOpportunities ==
    /\ result.kind = "kpis"
    /\ result' = [kind |-> "opportunities", kpis |-> result.kpis,
                  opportunities |-> compute_opportunities(result.kpis)]
    /\ UNCHANGED <<metrics, normVars, raceVars, window, trend_signals, pipeVars>>

NextOpp == ComputeOpportunities

SpecOpp == InitOpp /\ [][NextOpp]_vars

\* The entities of the list whose KPI `name` is 0.
ZeroAt(name) ==
    {e \in {OppEntities[i] : i \in DOMAIN OppEntities} : KpiValue(result.kpis, e, name) = 0}

\* The list without the KPIs of the entities in R.
Without(R) == SelectSeq(result.kpis, LAMBDA k : k.entity_id \notin R)

\* The opportunities in `opps` of the entities outside R, those of type
\* `skip` left out.
OfOthers(opps, R, skip) ==
    SelectSeq(opps, LAMBDA o : o.entity_id \notin R /\ o.type # skip)

SameQuotient(a, b) == a.n * b.d = b.n * a.d

\* Without the entities in R the threshold of `name` is the same, and so are
\* the opportunities of the other entities, those of type `skip` left out.
SameWithout(R, name, ratio, skip) ==
    LET ids(kpis) == KpiEntityIds(kpis, 1, {})
    IN  /\ SameQuotient(MeanShare(result.kpis, ids(result.kpis), name, ratio),
                        MeanShare(Without(R), ids(Without(R)), name, ratio))
        /\ OfOthers(result.opportunities, R, skip)
             = OfOthers(compute_opportunities(Without(R)), R, skip)

\* C12 as stated: removing any set of entities with spend = 0 from the list
\* (or adding them to the list without them) leaves spend_threshold and all
\* the opportunities of the other entities the same, and likewise any set of
\* entities with cpc = 0 and cpc_threshold.
C12_ZeroEntitiesChangeNoOpportunity ==
    result.kind = "opportunities" =>
        /\ \A R \in SUBSET ZeroAt("spend") :
              SameWithout(R, "spend", LOW_SPEND_PERCENTILE, "")
        /\ \A R \in SUBSET ZeroAt("cpc") :
              SameWithout(R, "cpc", LOW_CPC_THRESHOLD_RATIO, "")

\* C12 (amended): the thresholds are taken from the strictly positive
\* values only.  Removing any set R of entities with spend = 0 from the list
\* (or adding them to the list without them) leaves spend_threshold the
\* same, and every other entity gets the same opportunities apart from
\* capitalize_efficiency, which the cpc of the removed entities can decide;
\* likewise with cpc = 0, cpc_threshold and the opportunities apart from
\* scale_up; removing entities at 0 in both spend and cpc leaves both
\* thresholds and every opportunity of the others the same.
C12_ZeroEntitiesShiftNoThreshold ==
    result.kind = "opportunities" =>
        /\ \A R \in SUBSET ZeroAt("spend") :
              SameWithout(R, "spend", LOW_SPEND_PERCENTILE, "capitalize_efficiency")
        /\ \A R \in SUBSET ZeroAt("cpc") :
              SameWithout(R, "cpc", LOW_CPC_THRESHOLD_RATIO, "scale_up")
        /\ \A R \in SUBSET (ZeroAt("spend") \cap ZeroAt("cpc")) :
              /\ SameWithout(R, "spend", LOW_SPEND_PERCENTILE, "")
              /\ SameWithout(R, "cpc", LOW_CPC_THRESHOLD_RATIO, "")

\* Beside an entity that has neither spend nor cpc, the entity spending 1
\* against another's 6 is told to scale up, and the one paying 1 a click
\* against another's 2 to capitalize: the thresholds 1.05 of the two
\* positive values, not the 0.7 of all three.
C12_Witness ==
    /\ result.kind = "opportunities"
    /\ ZeroAt("spend") \cap ZeroAt("cpc") = {"c3"}
    /\ KpiValue(result.kpis, "c1", "spend") = 1 * KpiScale
    /\ KpiValue(result.kpis, "c2", "spend") = 6 * KpiScale
    /\ KpiValue(result.kpis, "c1", "cpc") = 2 * KpiScale
    /\ KpiValue(result.kpis, "c2", "cpc") = 1 * KpiScale
    /\ \E i, j \in DOMAIN result.opportunities :
          /\ result.opportunities[i].type = "scale_up"
          /\ result.opportunities[i].entity_id = "c1"
          /\ result.opportunities[j].type = "capitalize_efficiency"
          /\ result.opportunities[j].entity_id = "c2"

(***************************************************************************)
(* SpecKpiOpp: run_analysis hands the KPI list of compute_kpis to          *)
(* compute_opportunities                                                   *)
(***************************************************************************)
\* Campaigns c1 and c2 on day 1, each with its spend, clicks and purchase
\* value.
CampaignStore(v) ==
    SetToBag(UNION {
        {Rec("campaign", e, e, 1, "spend", v[e].spend),
         Rec("campaign", e, e, 1, "clicks", v[e].clicks),
         Rec("campaign", e, e, 1, "purchase_value", v[e].purchase_value)}
        : e \in DOMAIN v})

CampaignInputs == [spend : SpendValues, clicks : 0..MaxVal, purchase_value : RoasValues]

InitKpiOpp ==
    /\ \E v \in [{"c1", "c2"} -> CampaignInputs] : metrics = CampaignStore(v)
    /\ window = <<1, 1>>
    /\ trend_signals = <<>>
    /\ result = [kind |-> "none"]
    /\ IdleNorm
    /\ IdleRace
    /\ IdlePipe

\* kpis = compute_kpis(...); opportunities = compute_opportunities(kpis)
KpisToOpportunities ==
    /\ result.kind = "none"
    /\ \E entities \in Orderings(DistinctEntities(metrics, "campaign", window)) :
          LET kpis == compute_kpis(metrics, window, "campaign", entities)
          IN  result' = [kind |-> "campaigns", kpis |-> kpis,
                         opportunities |-> compute_opportunities(kpis)]
    /\ UNCHANGED <<metrics, normVars, raceVars, window, trend_signals, pipeVars>>

NextKpiOpp == KpisToOpportunities

SpecKpiOpp == InitKpiOpp /\ [][NextKpiOpp]_vars

\* The campaigns of the window.
Campaigns == {e[1] : e \in DistinctEntities(metrics, "campaign", window)}

\* v is positive and at most ratio times the mean of the positive values
\* f[e] of the campaigns.
LowAmongPositive(f, v, ratio) ==
    LET pos == {e \in Campaigns : f[e] > 0}
    IN  /\ v > 0
        /\ v * Cardinality(pos) * ratio.d <= SumSet(pos, f) * ratio.n

HasOpportunity(entity_id, type, potential_impact) ==
    \E i \in DOMAIN result.opportunities :
        /\ result.opportunities[i].entity_id = entity_id
        /\ result.opportunities[i].type = type
        /\ result.opportunities[i].potential_impact = potential_impact

\* C13: on the KPI list of compute_kpis, every campaign with roas >= 3.0
\* whose summed window spend is positive and at most 0.3 times the mean of
\* the positive campaign spends gets a scale_up opportunity of high impact.
C13_LowSpendHighRoasScalesUp ==
    result.kind = "campaigns" =>
        LET spend == [e \in Campaigns |-> WindowTotal(e, "spend")]
        IN  \A e \in Campaigns :
                ( /\ KpiValue(result.kpis, e, "roas") >= 3 * KpiScale
                  /\ LowAmongPositive(spend, spend[e], [n |-> 3, d |-> 10]) )
                => HasOpportunity(e, "scale_up", "high")

\* C14: on the KPI list of compute_kpis, every campaign with clicks > 0 and
\* 0 < cpc <= 0.7 times the mean of the positive campaign cpc values gets a
\* capitalize_efficiency opportunity of medium impact.
C14_LowCpcCapitalizes ==
    result.kind = "campaigns" =>
        LET cpc == [e \in Campaigns |-> KpiValue(result.kpis, e, "cpc")]
        IN  \A e \in Campaigns :
                ( /\ WindowTotal(e, "clicks") > 0
                  /\ LowAmongPositive(cpc, cpc[e], [n |-> 7, d |-> 10]) )
                => HasOpportunity(e, "capitalize_efficiency", "medium")

(***************************************************************************)
(* SpecKpi: the number of KPIs of an entity                                *)
(***************************************************************************)
KpiNames ==
    {"ctr", "cpc", "cpm", "cpa", "roas", "engagement_rate", "video_completion_rate"}

\* C15: compute_kpis returns exactly seven KPIMetrics, one for each of ctr,
\* cpc, cpm, cpa, roas, engagement_rate and video_completion_rate, for each
\* distinct entity_id with records of the entity type in the window, also
\* when the records of the entity carry different names on different dates.
C15_SevenKpisPerEntityId ==
    result.kind = "kpis" =>
        \A e \in {p[1] : p \in DistinctEntities(metrics, "campaign", window)} :
            \A n \in KpiNames :
                Cardinality({i \in DOMAIN result.kpis :
                    /\ result.kpis[i].entity_id = e
                    /\ result.kpis[i].name = n}) = 1

\* The positions of the trend signals that are risks: a baseline exists, the
\* signal is an alert and the change is beyond 25% either way.
RiskSignals ==
    {i \in DOMAIN trend_signals :
        /\ trend_signals[i].previous_period_available
        /\ trend_signals[i].signal = "alert"
        /\ Abs(trend_signals[i].change_pct) > 25 * PctScale}

\* The k-th smallest element of a set of positions.
Nth(S, k) == CHOOSE i \in S : Cardinality({j \in S : j <= i}) = k

\* C16: run_analysis emits a Risk for a trend signal exactly when
\* previous_period_available is true, signal is "alert" and |change_pct| >
\* 25, with severity high when |change_pct| > 50 and medium otherwise: the
\* risks are as many as such signals and the k-th risk is that of the k-th
\* such signal, so a signal without a baseline never produces one.
C16_RisksAreAlertsBeyond25 ==
    result.kind = "engines" =>
        /\ Len(result.risks) = Cardinality(RiskSignals)
        /\ \A k \in DOMAIN result.risks :
              LET t == trend_signals[Nth(RiskSignals, k)]
              IN  /\ result.risks[k].type = "trend_alert"
                  /\ result.risks[k].entity_type = t.entity_type
                  /\ result.risks[k].entity_id = t.entity_id
                  /\ result.risks[k].description[1] = t.metric_name
                  /\ result.risks[k].severity =
                        IF Abs(t.change_pct) > 50 * PctScale THEN "high" ELSE "medium"

\* The spend of the campaign doubled and its cpc rose by exactly 50%: a high
\* and a medium risk, in the order of the signals, and none for its ctr.
C16_Witness ==
    /\ result.kind = "engines"
    /\ Len(trend_signals) = 3
    /\ Len(result.risks) = 2
    /\ \E i, j \in DOMAIN trend_signals :
          /\ trend_signals[i].metric_name = "spend" /\ trend_signals[i].change_pct = 100 * PctScale
          /\ trend_signals[j].metric_name = "cpc" /\ trend_signals[j].change_pct = 50 * PctScale
          /\ i < j
    /\ result.risks[1].severity = "high"
    /\ result.risks[1].description[1] = "spend"
    /\ result.risks[2].severity = "medium"

\* The objective of the account's first campaign on the platform while run
\* r runs.
AccountObjective(r) == PlatformCampaigns(runs[r].data)[1].objective

NoRoasObjectives ==
    {"LEAD_GENERATION", "OUTCOME_LEADS", "LEAD_GEN",
     "BRAND_AWARENESS", "REACH", "OUTCOME_AWARENESS"}

\* C17: in every run, whether it fetched, skipped the fetch or failed in
\* it, the roas_context of the report is not applicable exactly when the
\* objective of the account's campaign is a lead-generation or awareness one
\* or overall_roas and total_conversions are both zero.
C17_RoasContextFollowsObjective ==
    \A r \in RunIds :
        runs[r].pc = "done" =>
            LET report == snapshots[runs[r].result_id].result_json
            IN  report.roas_context.applicable
                  = ~ \/ Upper(AccountObjective(r)) \in NoRoasObjectives
                      \/ /\ report.meta_summary.overall_roas = 0
                         /\ report.meta_summary.total_conversions = 0

(***************************************************************************)
(* pipeline.py: _validate_date and _resolve_dates                          *)
(*                                                                         *)
(* A date string is the sequence of its characters and a date the record   *)
(* of its year, month and day.  An Optional[str] is the empty sequence for *)
(* None and a one-element sequence otherwise.  Day arithmetic covers the   *)
(* years 2025 to 2027, none of them a leap year.                           *)
(***************************************************************************)
Digits == <<"0", "1", "2", "3", "4", "5", "6", "7", "8", "9">>

IsDigit(c) == \E i \in DOMAIN Digits : Digits[i] = c

DigitValue(c) == (CHOOSE i \in DOMAIN Digits : Digits[i] = c) - 1

AllDigits(cs) == \A i \in DOMAIN cs : IsDigit(cs[i])

\* int() of a string of digits.
RECURSIVE NumberOf(_)
NumberOf(cs) ==
    IF cs = <<>> THEN 0
    ELSE NumberOf(SubSeq(cs, 1, Len(cs) - 1)) * 10 + DigitValue(cs[Len(cs)])

\* n as at least `width` digits, zero-padded.
RECURSIVE Pad(_, _)
Pad(n, width) ==
    IF n < 10 /\ width <= 1 THEN <<Digits[n + 1]>>
    ELSE Pad(n \div 10, width - 1) \o <<Digits[(n % 10) + 1]>>

Date(year, month, day) == [year |-> year, month |-> month, day |-> day]

IsLeap(year) == year % 4 = 0 /\ (year % 100 # 0 \/ year % 400 = 0)

DaysInMonth(year, month) ==
    IF month = 2 THEN (IF IsLeap(year) THEN 29 ELSE 28)
    ELSE IF month \in {4, 6, 9, 11} THEN 30 ELSE 31

\* The days of a common year before the first of the month.
RECURSIVE DaysBefore(_)
DaysBefore(month) ==
    IF month = 1 THEN 0 ELSE DaysBefore(month - 1) + DaysInMonth(2026, month - 1)

\* date.toordinal() counted from 2025-12-31, and its inverse.
ToOrdinal(date) == (date.year - 2026) * 365 + DaysBefore(date.month) + date.day

FromOrdinal(n) ==
    LET doy   == ((n - 1) % 365) + 1
        month == CHOOSE m \in 1..12 :
                    DaysBefore(m) < doy /\ doy <= DaysBefore(m) + DaysInMonth(2026, m)
    IN  Date(2026 + ((n - 1) \div 365), month, doy - DaysBefore(month))

\* date - timedelta(days=k)
MinusDays(date, k) == FromOrdinal(ToOrdinal(date) - k)

\* year-month-day with the month and the day in at least `width` digits.
TextOf(year, month, day, width) ==
    Pad(year, 4) \o <<"-">> \o Pad(month, width) \o <<"-">> \o Pad(day, width)

\* date.strftime("%Y-%m-%d")
Strftime(date) == TextOf(date.year, date.month, date.day, 2)

\* datetime.strptime(text, "%Y-%m-%d"): four digits, a dash, a month of one
\* or two digits from 1 to 12, a dash, a day of one or two digits (or a
\* space and a digit) from 1 to 31, and nothing more; then the date must
\* exist.  ok is FALSE for the ValueError.
Strptime(text) ==
    LET n      == Len(text)
        dashes == {j \in {7, 8} : j < n /\ text[j] = "-"
                                        /\ AllDigits(SubSeq(text, 6, j - 1))}
    IN  IF n < 8 \/ ~AllDigits(SubSeq(text, 1, 4)) \/ text[5] # "-" \/ dashes = {}
          THEN [ok |-> FALSE]
          ELSE LET j     == CHOOSE x \in dashes : TRUE
                   year  == NumberOf(SubSeq(text, 1, 4))
                   month == NumberOf(SubSeq(text, 6, j - 1))
                   tail  == SubSeq(text, j + 1, n)
                   spaced == Len(tail) = 2 /\ tail[1] = " " /\ IsDigit(tail[2])
                   day   == IF spaced THEN DigitValue(tail[2])
                            ELSE IF AllDigits(tail) THEN NumberOf(tail) ELSE 0
               IN  IF /\ year >= 1
                      /\ month \in 1..12
                      /\ Len(tail) \in {1, 2}
                      /\ day \in 1..DaysInMonth(year, month)
                     THEN [ok |-> TRUE, date |-> Date(year, month, day)]
                     ELSE [ok |-> FALSE]

\* The string itself when strptime accepts it, None otherwise.
_validate_date(d) ==
    IF d = <<>> \/ d[1] = <<>> THEN <<>>
    ELSE IF Strptime(d[1]).ok THEN d ELSE <<>>

RangeNames == {"yesterday", "last_7d", "last_14d", "last_30d", "this_month"}

\* mapping[date_range]
NamedWindow(today, name) ==
    CASE name = "yesterday"  -> <<MinusDays(today, 1), MinusDays(today, 1)>>
      [] name = "last_7d"    -> <<MinusDays(today, 7), MinusDays(today, 1)>>
      [] name = "last_14d"   -> <<MinusDays(today, 14), MinusDays(today, 1)>>
      [] name = "last_30d"   -> <<MinusDays(today, 30), MinusDays(today, 1)>>
      [] name = "this_month" -> <<Date(today.year, today.month, 1), today>>

\* The pair of strings resolved from the three optional parameters.
_resolve_dates(today, date_range, start_date, end_date) ==
    LET start == _validate_date(start_date)
        end   == _validate_date(end_date)
    IN  IF start # <<>> /\ end # <<>> THEN <<start[1], end[1]>>
        ELSE IF /\ date_range # <<>>
                /\ date_range[1] # ""
                /\ date_range[1] # "string"
                /\ date_range[1] \in RangeNames
          THEN LET w == NamedWindow(today, date_range[1])
               IN  <<Strftime(w[1]), Strftime(w[2])>>
        ELSE <<Strftime(MinusDays(today, 7)), Strftime(MinusDays(today, 1))>>

(***************************************************************************)
(* SpecDates: _resolve_dates over the requests of POST /run-analysis       *)
(***************************************************************************)
Todays == {Date(2026, 2, 1), Date(2026, 3, 1), Date(2026, 3, 31)}

\* date_range: absent, empty, the placeholder of the API page, the five
\* names and an unknown one.
DateRangeInputs ==
    {<<>>} \cup {<<n>> : n \in RangeNames \cup {"", "string", "last_week"}}

\* start_date and end_date: absent, empty, two dates as YYYY-MM-DD, the
\* same two with one-digit month and day, a day that does not exist and
\* another notation.
DateInputs ==
    {<<>>, <<<<>>>>,
     <<TextOf(2026, 2, 1, 2)>>, <<TextOf(2026, 2, 7, 2)>>,
     <<TextOf(2026, 2, 1, 1)>>, <<TextOf(2026, 2, 7, 1)>>,
     <<TextOf(2026, 2, 30, 2)>>,
     <<<<"0", "2", "/", "0", "1", "/", "2", "0", "2", "6">>>>}

InitDates ==
    /\ \E today \in Todays, date_range \in DateRangeInputs,
          start_date \in DateInputs, end_date \in DateInputs :
          result = [kind |-> "request", today |-> today, date_range |-> date_range,
                    start_date |-> start_date, end_date |-> end_date]
    /\ window = <<1, 1>>
    /\ trend_signals = <<>>
    /\ metrics = EmptyBag
    /\ IdleNorm
    /\ IdleRace
    /\ IdlePipe

\* date_start, date_stop = _resolve_dates(date_range, start_date, end_date)
ResolveDates ==
    /\ result.kind = "request"
    /\ result' = [result EXCEPT !.kind = "resolved"]
                    @@ [resolved |-> _resolve_dates(result.today, result.date_range,
                                                    result.start_date, result.end_date)]
    /\ UNCHANGED <<metrics, normVars, raceVars, window, trend_signals, pipeVars>>

NextDates == ResolveDates

SpecDates == InitDates /\ [][NextDates]_vars

\* The parameter is a date written YYYY-MM-DD: ten characters, digits but
\* for the two dashes, naming a day that exists.
IsIsoDate(d) ==
    /\ d # <<>>
    /\ Len(d[1]) = 10
    /\ \A i \in 1..10 : IF i \in {5, 8} THEN d[1][i] = "-" ELSE IsDigit(d[1][i])
    /\ LET year  == NumberOf(SubSeq(d[1], 1, 4))
           month == NumberOf(SubSeq(d[1], 6, 7))
           day   == NumberOf(SubSeq(d[1], 9, 10))
       IN  year >= 1 /\ month \in 1..12 /\ day \in 1..DaysInMonth(year, month)

Recognized(date_range) == date_range # <<>> /\ date_range[1] \in RangeNames

\* C18: when a request supplies both a recognized date_range and a valid
\* start_date and end_date, the resolved window is the one of date_range
\* and not the custom dates.
C18_DateRangeOverridesCustomDates ==
    ( /\ result.kind = "resolved"
      /\ Recognized(result.date_range)
      /\ IsIsoDate(result.start_date)
      /\ IsIsoDate(result.end_date) )
    => LET w == NamedWindow(result.today, result.date_range[1])
       IN  result.resolved = <<Strftime(w[1]), Strftime(w[2])>>

\* C19: _resolve_dates returns a window for every request, and when
\* start_date and end_date are not both valid YYYY-MM-DD dates and
\* date_range is absent or not a recognized name, that window is the
\* trailing seven days from today - 7 to today - 1.
C19_InvalidInputFallsBackToSevenDays ==
    ( /\ result.kind = "resolved"
      /\ ~(IsIsoDate(result.start_date) /\ IsIsoDate(result.end_date))
      /\ ~Recognized(result.date_range) )
    => result.resolved = <<Strftime(MinusDays(result.today, 7)),
                           Strftime(MinusDays(result.today, 1))>>

(***************************************************************************)
(* SpecBatch: step 3 of run_analysis on a raw entry whose payload holds an *)
(* element that cannot be normalized, followed by the KPI engine           *)
(***************************************************************************)
BatchRows == {RawRow("c1", 1, 1), RawRow("c1", 1, 2), RawRow("c2", 1, 1), NullRow}

BatchPayloads == UNION {[1..n -> BatchRows] : n \in 1..3}

InitBatch ==
    /\ metrics = EmptyBag
    /\ lastPayload \in BatchPayloads
    /\ lastLevel \in Levels
    /\ lastCreated = 0
    /\ calls = 0
    /\ repeated = FALSE
    /\ IdleRace
    /\ IdleEngines
    /\ IdlePipe

\* try: transform_insights(payload, level, session) / except: log; then
\* compute_kpis.
NormalizeEntry ==
    /\ calls = 0
    /\ LET r == transform_insights(metrics, lastPayload, lastLevel)
       IN  /\ metrics' = r.table
           /\ lastCreated' = r.created
           /\ calls' = 1
           /\ \E entities \in Orderings(DistinctEntities(r.table, "campaign", window)) :
                 result' = [kind |-> "kpis", raised |-> r.raised,
                            kpis |-> compute_kpis(r.table, window, "campaign", entities)]
    /\ UNCHANGED <<lastPayload, lastLevel, repeated, raceVars, window,
                   trend_signals, pipeVars>>

NextBatch == NormalizeEntry

SpecBatch == InitBatch /\ [][NextBatch]_vars

\* C20: when one row of a payload raises while it is normalized, the other
\* rows of the payload, those before it and those after it, are still
\* normalized and upserted into the store, and the run goes on to the
\* engines.
C20_OtherRowsStillNormalized ==
    calls = 1 =>
        /\ result.kind = "kpis"
        /\ \A i \in DOMAIN lastPayload :
              IsObject(lastPayload[i]) =>
                  \A nm \in RecordsOf(lastPayload[i], lastLevel) :
                      Existing(metrics, nm) # {}

(***************************************************************************)
(* trend_engine.py: _compute_date_ranges on date strings                   *)
(***************************************************************************)
\* The previous period whose last day is the first day of the window.
PreviousPeriodFromStart(date_start, date_stop) ==
    LET start == Strptime(date_start).date
        stop  == Strptime(date_stop).date
        period_days == (ToOrdinal(stop) - ToOrdinal(start)) + 1
        prev_stop   == start
        prev_start  == MinusDays(prev_stop, period_days - 1)
    IN  <<Strftime(prev_start), Strftime(prev_stop)>>

\* _compute_date_ranges(date_start, date_stop) as the code computes it:
\* parse both strings, subtract days, format both results.
PreviousPeriod(date_start, date_stop) ==
    LET start == Strptime(date_start).date
        stop  == Strptime(date_stop).date
        period_days == (ToOrdinal(stop) - ToOrdinal(start)) + 1
        prev_stop   == MinusDays(start, 1)
        prev_start  == MinusDays(prev_stop, period_days - 1)
    IN  <<Strftime(prev_start), Strftime(prev_stop)>>

(***************************************************************************)
(* SpecRanges: _compute_date_ranges over windows that cross the ends of    *)
(* months and of the year                                                  *)
(***************************************************************************)
\* The first and last days of months, the turn of the year, and two dates
\* written with one-digit month and day, which strptime also parses.
RangeDates ==
    {TextOf(2025, 12, 31, 2), TextOf(2026, 1, 1, 2), TextOf(2026, 1, 2, 2),
     TextOf(2026, 1, 31, 2), TextOf(2026, 2, 1, 2), TextOf(2026, 2, 28, 2),
     TextOf(2026, 3, 1, 2), TextOf(2026, 3, 31, 2), TextOf(2026, 6, 30, 2),
     TextOf(2026, 7, 1, 2), TextOf(2026, 2, 1, 1), TextOf(2026, 3, 1, 1)}

InitRanges ==
    /\ \E date_start \in RangeDates, date_stop \in RangeDates :
          result = [kind |-> "window", date_start |-> date_start,
                    date_stop |-> date_stop]
    /\ window = <<1, 1>>
    /\ trend_signals = <<>>
    /\ metrics = EmptyBag
    /\ IdleNorm
    /\ IdleRace
    /\ IdlePipe

\* prev_start, prev_stop = _compute_date_ranges(date_start, date_stop)
ComputeDateRanges ==
    /\ result.kind = "window"
    /\ Strptime(result.date_start).ok
    /\ Strptime(result.date_stop).ok
    /\ LET prev == PreviousPeriod(result.date_start, result.date_stop)
       IN  result' = [result EXCEPT !.kind = "ranges"]
                        @@ [prev_start |-> prev[1], prev_stop |-> prev[2]]
    /\ UNCHANGED <<metrics, normVars, raceVars, window, trend_signals, pipeVars>>

NextRanges == ComputeDateRanges

SpecRanges == InitRanges /\ [][NextRanges]_vars

\* The day number of a date string.
OrdinalOf(text) == ToOrdinal(Strptime(text).date)

\* The day numbers from the first to the last day of a period.
DaysOf(first, last) == OrdinalOf(first)..OrdinalOf(last)

\* C21: for every window with start <= stop, the previous period returned
\* by _compute_date_ranges ends the day before start, begins length - 1
\* days before its end, so it has as many days as the window, and it shares
\* no day with the window; both results are written YYYY-MM-DD.
C21_PreviousPeriodContiguousSameLength ==
    ( /\ result.kind = "ranges"
      /\ OrdinalOf(result.date_start) <= OrdinalOf(result.date_stop) )
    => LET length == Cardinality(DaysOf(result.date_start, result.date_stop))
       IN  /\ IsIsoDate(<<result.prev_start>>)
           /\ IsIsoDate(<<result.prev_stop>>)
           /\ OrdinalOf(result.prev_stop) = OrdinalOf(result.date_start) - 1
           /\ OrdinalOf(result.prev_start) = OrdinalOf(result.prev_stop) - (length - 1)
           /\ Cardinality(DaysOf(result.prev_start, result.prev_stop)) = length
           /\ DaysOf(result.prev_start, result.prev_stop)
                 \cap DaysOf(result.date_start, result.date_stop) = {}

\* The window of January 2026: its previous period is December 2025, another
\* month of 31 days in another year.
C21_Witness ==
    /\ result.kind = "ranges"
    /\ result.date_start = TextOf(2026, 1, 1, 2)
    /\ result.date_stop = TextOf(2026, 1, 31, 2)
    /\ result.prev_start = TextOf(2025, 12, 1, 2)
    /\ result.prev_stop = TextOf(2025, 12, 31, 2)

(***************************************************************************)
(* SpecDirection: compute_trends on impression counts whose change lies    *)
(* close to the 2% that separates flat from up and down                    *)
(***************************************************************************)
BaselineImpressions == 10025..10034

ImpressionChanges == 196..205

\* Campaign c1 with `previous` impressions the day before the window and
\* `current` impressions on its only day.
DirectionStore(w, previous, current) ==
    SetToBag({Rec("campaign", "c1", "Summer", w[1] - 1, "impressions", previous),
              Rec("campaign", "c1", "Summer", w[1], "impressions", current)})

InitDirection ==
    /\ window = <<3, 3>>
    /\ \E previous \in BaselineImpressions, change \in ImpressionChanges,
          sign \in {1, 0 - 1} :
          metrics = DirectionStore(window, previous, previous + sign * change)
    /\ trend_signals = <<>>
    /\ result = [kind |-> "none"]
    /\ IdleNorm
    /\ IdleRace
    /\ IdlePipe

NextDirection == ComputeTrends

SpecDirection == InitDirection /\ [][NextDirection]_vars

\* C22: every signal emitted with previous_period_available true has the
\* change (current - previous) / previous * 100 rounded to two decimals as
\* its change_pct, and its direction is up exactly when that emitted
\* change_pct is above 2, down exactly when it is below -2, and flat
\* otherwise.
C22_DirectionFollowsEmittedChange ==
    result.kind = "trends" =>
        \A i \in DOMAIN result.trends :
            LET s == result.trends[i]
            IN  s.previous_period_available =>
                  /\ s.change_pct
                       = RoundDivSigned((s.current_value - s.previous_value) * 100 * PctScale,
                                        s.previous_value)
                  /\ s.direction = "up" <=> s.change_pct > 2 * PctScale
                  /\ s.direction = "down" <=> s.change_pct < (0 - 2) * PctScale
                  /\ s.direction = "flat" <=> /\ s.change_pct <= 2 * PctScale
                                              /\ s.change_pct >= (0 - 2) * PctScale

(***************************************************************************)
(* Claims on the frequency levels and the report of compute_fatigue        *)
(* (SpecFatigue)                                                           *)
(***************************************************************************)
\* The frequency records of the ad in the window.
FrequencyRecords(entity_id) ==
    {x \in BagToSet(metrics) :
        /\ x.entity_type = "ad" /\ x.metric_name = "frequency"
        /\ x.entity_id = entity_id
        /\ x.date >= window[1] /\ x.date <= window[2]}

\* The arithmetic mean of the frequency records of the ad is at least lo.
MeanAtLeast(entity_id, lo) ==
    LET S   == FrequencyRecords(entity_id)
        sum == SumSet(S, [r \in S |-> r.metric_value])
    IN  lo * Cardinality(S) <= sum

\* The bands of the claim, as the level and whether the mean lies in it.
MeanBands(entity_id) ==
    {<<"critical", MeanAtLeast(entity_id, 10)>>,
     <<"high", MeanAtLeast(entity_id, 7) /\ ~MeanAtLeast(entity_id, 10)>>,
     <<"medium", MeanAtLeast(entity_id, 5) /\ ~MeanAtLeast(entity_id, 7)>>,
     <<"low", MeanAtLeast(entity_id, 3) /\ ~MeanAtLeast(entity_id, 5)>>,
     <<"none", ~MeanAtLeast(entity_id, 3)>>}

\* The level the claim gives to the mean frequency of the ad.
MeanLevel(entity_id) == (CHOOSE b \in MeanBands(entity_id) : b[2])[1]

\* C23: the mean of the frequency records of an entity in the window falls
\* in exactly one of the bands >= 10 critical, [7, 10) high, [5, 7) medium,
\* [3, 5) low, < 3 none; with no trend signals supplied compute_fatigue
\* reports the entity at the level of its band, and with signals at that
\* level or the next one.
C23_MeanFrequencyMapsToOneLevel ==
    result.kind = "fatigue" =>
        \A e \in FrequencyEntities :
            /\ Cardinality({b \in MeanBands(e) : b[2]}) = 1
            /\ trend_signals = <<>> => FinalLevel(e) = MeanLevel(e)
            /\ FinalLevel(e) \in {MeanLevel(e), LevelAbove(MeanLevel(e))}
            /\ MeanLevel(e) = "none" => FinalLevel(e) = "none"

\* Frequencies 7 and 10, a mean of 8.5, without trend signals: high.
C23_Witness ==
    /\ result.kind = "fatigue"
    /\ window = <<1, 2>>
    /\ trend_signals = <<>>
    /\ {r.metric_value : r \in FrequencyRecords("a1")} = {7, 10}
    /\ FinalLevel("a1") = "high"
    /\ \E i \in DOMAIN result.fatigue.affected_entities :
          /\ result.fatigue.affected_entities[i].entity_id = "a1"
          /\ result.fatigue.affected_entities[i].avg_frequency = 850

\* The place of a level in none < low < medium < high < critical.
LevelRank(level) ==
    CASE level = "none" -> 0
      [] level = "low" -> 1
      [] level = "medium" -> 2
      [] level = "high" -> 3
      [] level = "critical" -> 4

\* The level of the entity after escalation: one step above the level of
\* its mean when that level is low, medium or high and a qualifying signal
\* is supplied for it.
EscalatedLevel(entity_id) ==
    IF Qualifying(entity_id) /\ MeanLevel(entity_id) \in {"low", "medium", "high"}
      THEN LevelAbove(MeanLevel(entity_id))
      ELSE MeanLevel(entity_id)

\* C24: affected_entities holds exactly the entities whose level after
\* escalation is not none, each once and with that level, and fatigue_level
\* is the greatest of these levels under none < low < medium < high <
\* critical, none when affected_entities is empty.
C24_ReportIsMaximumOfAffected ==
    result.kind = "fatigue" =>
        LET a == result.fatigue.affected_entities
        IN  /\ {a[i].entity_id : i \in DOMAIN a}
                 = {e \in FrequencyEntities : EscalatedLevel(e) # "none"}
            /\ \A i, j \in DOMAIN a : a[i].entity_id = a[j].entity_id => i = j
            /\ \A i \in DOMAIN a : a[i].fatigue_level = EscalatedLevel(a[i].entity_id)
            /\ a = <<>> => result.fatigue.fatigue_level = "none"
            /\ a # <<>> =>
                 /\ \E i \in DOMAIN a : a[i].fatigue_level = result.fatigue.fatigue_level
                 /\ \A i \in DOMAIN a :
                       LevelRank(a[i].fatigue_level)
                          <= LevelRank(result.fatigue.fatigue_level)

\* Two affected ads, the first escalated from high to critical and the
\* second at medium, beside a report of critical; the order of the rows puts
\* the lower level last.
C24_Witness ==
    /\ result.kind = "fatigue"
    /\ Len(result.fatigue.affected_entities) = 2
    /\ result.fatigue.affected_entities[1].fatigue_level = "critical"
    /\ result.fatigue.affected_entities[1].ctr_declining
    /\ result.fatigue.affected_entities[2].fatigue_level = "medium"
    /\ result.fatigue.fatigue_level = "critical"

\* No ad reaches a mean of 3: nothing is affected and the report is none.
C24_WitnessNone ==
    /\ result.kind = "fatigue"
    /\ result.fatigue.affected_entities = <<>>
    /\ result.fatigue.fatigue_level = "none"

(***************************************************************************)
(* SpecRank: compute_kpis followed by _build_rankings over three campaigns *)
(* whose roas values can tie                                               *)
(***************************************************************************)
RankCampaigns == {"c1", "c2", "c3"}

\* What each campaign spent on day 1.
RankSpend == [c1 |-> 1, c2 |-> 2, c3 |-> 1]

\* Every campaign with its spend and the purchase value pv[c] on day 1;
\* when renamed, c1 has a purchase value of 1 on day 2 under a new name; an
\* ad whose roas is above those of the campaigns.
RankStore(pv, renamed) ==
    SetToBag(UNION {{Rec("campaign", c, c, 1, "spend", RankSpend[c]),
                     Rec("campaign", c, c, 1, "purchase_value", pv[c])}
                    : c \in RankCampaigns}
             \cup {Rec("ad", "a1", "Ad one", 1, "spend", 1),
                   Rec("ad", "a1", "Ad one", 1, "purchase_value", MaxVal + 1)}
             \cup (IF renamed
                     THEN {Rec("campaign", "c1", "c1 v2", 2, "purchase_value", 1)}
                     ELSE {}))

InitRank ==
    /\ \E pv \in [RankCampaigns -> 0..MaxVal], renamed \in BOOLEAN :
          metrics = RankStore(pv, renamed)
    /\ window = <<1, 2>>
    /\ trend_signals = <<>>
    /\ result = [kind |-> "none"]
    /\ IdleNorm
    /\ IdleRace
    /\ IdlePipe

\* kpis = compute_kpis(...); campaign_rankings = _build_rankings(kpis).  The
\* KPIs of the ads follow those of the campaigns in the list handed over.
BuildRankings ==
    /\ result.kind = "none"
    /\ \E entities \in Orderings(DistinctEntities(metrics, "campaign", window)),
          ads \in Orderings(DistinctEntities(metrics, "ad", window)) :
          LET kpis == compute_kpis(metrics, window, "campaign", entities)
                         \o compute_kpis(metrics, window, "ad", ads)
          IN  result' = [kind |-> "rankings", kpis |-> kpis,
                         rankings |-> _build_rankings(kpis)]
    /\ UNCHANGED <<metrics, normVars, raceVars, window, trend_signals, pipeVars>>

NextRank == BuildRankings

SpecRank == InitRank /\ [][NextRank]_vars

\* The campaign KPIs of the list, by their positions.
CampaignKpiIndexes == {i \in DOMAIN result.kpis : result.kpis[i].entity_type = "campaign"}

\* Where the campaign first occurs in the KPI list.
FirstOccurrence(entity_id) ==
    CHOOSE i \in CampaignKpiIndexes :
        /\ result.kpis[i].entity_id = entity_id
        /\ \A j \in CampaignKpiIndexes : result.kpis[j].entity_id = entity_id => i <= j

\* C25: _build_rankings returns one ranking for every distinct campaign id
\* of the KPI list and none for another entity, with the ranks 1 to n in
\* the order of the list, each carrying a roas KPI of its campaign; roas
\* does not increase along the list, and of two campaigns of equal roas the
\* one that occurs first in the KPI list is ranked first.
C25_RankingsByRoasStable ==
    result.kind = "rankings" =>
        LET r == result.rankings
        IN  /\ {r[i].entity_id : i \in DOMAIN r}
                 = {result.kpis[i].entity_id : i \in CampaignKpiIndexes}
            /\ Len(r) = Cardinality({result.kpis[i].entity_id : i \in CampaignKpiIndexes})
            /\ \A i \in DOMAIN r :
                  /\ r[i].rank = i
                  /\ \E k \in CampaignKpiIndexes :
                        /\ result.kpis[k].entity_id = r[i].entity_id
                        /\ result.kpis[k].name = "roas"
                        /\ result.kpis[k].value = r[i].roas
            /\ \A i, j \in DOMAIN r :
                  i < j =>
                     /\ r[i].roas >= r[j].roas
                     /\ r[i].roas = r[j].roas =>
                           FirstOccurrence(r[i].entity_id) < FirstOccurrence(r[j].entity_id)

\* Three campaigns, the one listed last with the greatest roas and the two
\* before it tied: the last is ranked first and the tied ones keep the order
\* of the list.
C25_Witness ==
    /\ result.kind = "rankings"
    /\ Len(result.rankings) = 3
    /\ result.rankings[1].roas > result.rankings[2].roas
    /\ result.rankings[2].roas = result.rankings[3].roas
    /\ result.rankings[2].roas > 0
    /\ FirstOccurrence(result.rankings[2].entity_id)
          < FirstOccurrence(result.rankings[3].entity_id)
    /\ FirstOccurrence(result.rankings[3].entity_id)
          < FirstOccurrence(result.rankings[1].entity_id)

(***************************************************************************)
(* SpecFresh: non-forced runs of run_analysis over two windows that end on *)
(* the same day                                                            *)
(***************************************************************************)
\* "yesterday", which the daily job asks for, and a longer window that also
\* ends yesterday, as last_7d, last_14d and last_30d do.
FreshWindows == {<<Today - 1, Today - 1>>, <<Today - 2, Today - 1>>}

StartFresh(r) == StartWith(r, FreshWindows, {FALSE}, {1})

NextFresh == \E r \in RunIds : StartFresh(r) \/ RunStep(r)

SpecFresh == InitPipe /\ [][NextFresh]_vars

\* The committed raw rows fetched today for exactly the window of run r.
FetchedTodayFor(r) ==
    SelectSeq(raw, LAMBDA e :
        /\ e.date_start = runs[r].window[1]
        /\ e.date_stop = runs[r].window[2]
        /\ e.fetched_at >= Today)

\* C26: a non-forced run skips the fetch only when raw data of its own
\* window (same date_start and same date_stop) was fetched today, so once a
\* non-forced run in which no call to the platform failed has ended, the
\* raw store holds data fetched today for exactly the requested window.
C26_SkipOnlyWhenWindowFetchedToday ==
    \A r \in RunIds :
        ( /\ runs[r].pc = "done"
          /\ ~runs[r].force
          /\ runs[r].failed = {} )
        => FetchedTodayFor(r) # <<>>

(***************************************************************************)
(* Claims on the Metric Store across runs (SpecPipe)                       *)
(***************************************************************************)
\* C27: no step of run_analysis removes a composite key from the Metric
\* Store; the store changes only in the step that ends a run, and what that
\* step leaves is what normalizing the raw rows of the window produced, so
\* the engines, the summary and the confidence score that follow in the
\* same step changed nothing.
C27_StoreKeysOnlyGrow ==
    [][/\ Keys(BagToSet(metrics)) \subseteq Keys(BagToSet(metrics'))
       /\ Completing = {} => metrics' = metrics
       /\ \A r \in Completing :
             /\ \A i \in DOMAIN RawEntries(runs[r]) :
                   Keys(PayloadRecordSet(RawEntries(runs[r])[i]))
                      \subseteq Keys(BagToSet(metrics'))
             /\ Keys(BagToSet(metrics'))
                   = Keys(BagToSet(metrics))
                       \cup UNION {Keys(PayloadRecordSet(RawEntries(runs[r])[i])) :
                                      i \in DOMAIN RawEntries(runs[r])}]_vars

\* Two runs have ended, the later one on rows without purchases, and the
\* store still holds a record that none of the later run's rows carries.
C27_Witness ==
    /\ runs["api"].pc = "done"
    /\ runs["scheduler"].pc = "done"
    /\ runs["api"].result_id = 2
    /\ runs["api"].data = 2
    /\ runs["api"].failed = {}
    /\ \E i \in DOMAIN raw :
          raw[i].payload_json = PlatformInsights(runs["api"].window, 2)
    /\ \E rec \in BagToSet(metrics) :
          \A i \in DOMAIN raw :
              raw[i].payload_json = PlatformInsights(runs["api"].window, 2)
                 => KeyOf(rec) \notin Keys(PayloadRecordSet(raw[i]))

\* The calls of the fetch stage that raise into run_analysis.
FetchCalls == {"account", "campaign", "adset", "ad", "campaigns"}

\* C28: when a fetch call of a run failed before endpoints.commit() was
\* reached, the step that ends the run persists none of the raw payloads
\* the run had fetched before the failure, and normalizes only raw rows
\* that were committed before.
C28_FailedFetchPersistsNothing ==
    [][\A r \in Completing :
          runs[r].failed \cap FetchCalls # {} =>
             /\ raw' = raw
             /\ metrics' = NormalizeAll(metrics, WindowEntries(r), 1)]_vars

\* C29: for every request, the window _resolve_dates returns has its
\* date_start on or before its date_stop, so it covers at least one day.
C29_ResolvedWindowNotEmpty ==
    result.kind = "resolved" =>
        /\ Strptime(result.resolved[1]).ok
        /\ Strptime(result.resolved[2]).ok
        /\ OrdinalOf(result.resolved[1]) <= OrdinalOf(result.resolved[2])

(***************************************************************************)
(* client.py: MetaClient._request                                          *)
(*                                                                         *)
(* A response is what `await client.request(...)` produces: a connection   *)
(* error (httpx.RequestError) or a status with a content type and a body   *)
(* that is a JSON object or does not parse as JSON.                        *)
(***************************************************************************)
MAX_RETRIES == 3
RETRY_BASE_DELAY == 2

ConnectionError == [status |-> 0, content_type |-> "", body |-> ""]

Responses ==
    {ConnectionError}
    \cup [status : {200, 400, 404, 429, 500, 503},
          content_type : {"application/json", "text/html"},
          body : {"object", "malformed"}]

\* RETRY_BASE_DELAY * (2 ** (attempt - 1))
Wait(attempt) == RETRY_BASE_DELAY * (2 ^ (attempt - 1))

\* `await asyncio.sleep(wait)` followed by `continue`.
Sleep(req) == [req EXCEPT !.pc = "sleep", !.waited = @ + Wait(req.attempt)]

Raise(req, exception) == [req EXCEPT !.pc = "raised", !.outcome = exception]

\* except httpx.HTTPStatusError: the body is parsed when the content type is
\* JSON, then a status >= 500 is retried while attempts are left.
OnStatusError(req, resp) ==
    IF resp.content_type = "application/json" /\ resp.body = "malformed"
      THEN Raise(req, "JSONDecodeError")
    ELSE IF req.attempt < MAX_RETRIES /\ resp.status >= 500
      THEN Sleep(req)
    ELSE Raise(req, "MetaAPIError")

\* The body of the loop for the response of this attempt.
OnResponse(req, resp) ==
    IF resp = ConnectionError
      THEN (IF req.attempt < MAX_RETRIES THEN Sleep(req)
            ELSE Raise(req, "MetaAPIError"))
    ELSE IF resp.status = 429 THEN Sleep(req)
    ELSE IF resp.status >= 200 /\ resp.status < 300
      THEN (IF resp.body = "object"
              THEN [req EXCEPT !.pc = "returned", !.outcome = "body"]
              ELSE Raise(req, "JSONDecodeError"))
    ELSE OnStatusError(req, resp)

(***************************************************************************)
(* SpecRequest: one call of _request against every sequence of responses   *)
(***************************************************************************)
InitRequest ==
    /\ result = [kind |-> "http", pc |-> "request", attempt |-> 1, waited |-> 0,
                 history |-> <<>>, outcome |-> "none"]
    /\ window = <<1, 1>>
    /\ trend_signals = <<>>
    /\ metrics = EmptyBag
    /\ IdleNorm
    /\ IdleRace
    /\ IdlePipe

\* `await client.request(method, url, params=params)` returns or raises.
RequestReturns ==
    /\ result.pc = "request"
    /\ \E resp \in Responses :
          result' = OnResponse([result EXCEPT !.history = Append(@, resp)], resp)
    /\ UNCHANGED <<metrics, normVars, raceVars, window, trend_signals, pipeVars>>

\* The sleep is over: the next attempt of the loop, or the statement after
\* the loop when there is none.
SleepReturns ==
    /\ result.pc = "sleep"
    /\ result' = IF result.attempt < MAX_RETRIES
                   THEN [result EXCEPT !.pc = "request", !.attempt = @ + 1]
                   ELSE Raise(result, "MetaAPIError")
    /\ UNCHANGED <<metrics, normVars, raceVars, window, trend_signals, pipeVars>>

NextRequest == RequestReturns \/ SleepReturns

SpecRequest == InitRequest /\ [][NextRequest]_vars

\* A response with a 4xx status other than 429.
ClientError(resp) == resp.status >= 400 /\ resp.status < 500 /\ resp.status # 429

\* No more than MAX_RETRIES HTTP attempts are made, and no attempt follows
\* a 4xx response other than 429.
AttemptsBounded ==
    /\ Len(result.history) <= MAX_RETRIES
    /\ \A i \in DOMAIN result.history :
          ClientError(result.history[i]) => i = Len(result.history)

\* C30: a call of _request makes at most MAX_RETRIES HTTP attempts, never
\* another one after a 4xx response other than 429, and when it has ended
\* it has returned the response body or raised MetaAPIError, whatever the
\* responses were.
C30_RequestEndsWithBodyOrMetaAPIError ==
    /\ AttemptsBounded
    /\ result.pc \in {"request", "sleep", "returned", "raised"}
    /\ result.pc = "returned" => result.outcome = "body"
    /\ result.pc = "raised" => result.outcome = "MetaAPIError"

====
